---- MODULE Spec2Model ----
(***************************************************************************)
(* Document-batch analysis and synthesis orchestrator of the forensic      *)
(* report backend: predictions.query_case -> InferenceService              *)
(* .create_unified_analysis -> .query_with_batch -> GeminiModel.predict.   *)
(*                                                                         *)
(* A text is a sequence of fragments (TLA+ strings).  Concatenation,       *)
(* substring search, prefix test, replace and lower-casing are computed    *)
(* over fragments, so two messages that differ in one word are different   *)
(* texts and a marker is found only where its fragments occur in order.    *)
(***************************************************************************)
EXTENDS Integers, Sequences, FiniteSets, TLC

(***************************************************************************)
(* Bounds of the model.                                                    *)
(***************************************************************************)
MaxFiles == 4
MaxRequestFiles == 4
MaxBatchSize == 2
MaxRetries == 1
MaxTextLen == 4
MaxInvocations == 3
MaxPieces == 3

(***************************************************************************)
(* Text helpers (Python str operations over fragments).                    *)
(***************************************************************************)
Contains(s, sub) ==
    \E i \in 0..(Len(s) - Len(sub)) : SubSeq(s, i + 1, i + Len(sub)) = sub

StartsWith(s, p) ==
    Len(s) >= Len(p) /\ SubSeq(s, 1, Len(p)) = p

LowerTok(t) ==
    CASE t = "Background" -> "background"
      [] t = "Information" -> "information"
      [] t = "Findings" -> "findings"
      [] t = "FINDINGS" -> "findings"
      [] t = "Summary" -> "summary"
      [] t = "Slip" -> "slip"
      [] t = "Quota" -> "quota"
      [] t = "Rate limit" -> "rate limit"
      [] OTHER -> t

Lower(s) == [i \in 1..Len(s) |-> LowerTok(s[i])]

Replace(s, a, b) == [i \in 1..Len(s) |-> IF s[i] = a THEN b ELSE s[i]]

RECURSIVE Flatten(_)
Flatten(ss) == IF ss = <<>> THEN <<>> ELSE Head(ss) \o Flatten(Tail(ss))

(***************************************************************************)
(* Python dict with insertion order: a sequence of [k, v] entries with     *)
(* unique keys.  A missing key and an empty value are both falsy; both     *)
(* read as the empty text.                                                 *)
(***************************************************************************)
HasKey(t, key) == \E i \in 1..Len(t) : t[i].k = key

Get(t, key) ==
    IF HasKey(t, key)
    THEN t[CHOOSE i \in 1..Len(t) : t[i].k = key].v
    ELSE <<>>

Put(t, key, val) ==
    IF HasKey(t, key)
    THEN [i \in 1..Len(t) |-> IF t[i].k = key THEN [k |-> key, v |-> val] ELSE t[i]]
    ELSE Append(t, [k |-> key, v |-> val])

Truthy(x) == x # <<>>

(***************************************************************************)
(* Section names, case types and the stored prompt documents.              *)
(***************************************************************************)
SecBackground == <<"Background", " ", "Information">>
SecFindings == <<"Findings">>
SecExhibits == <<"Exhibits">>
Sections == {SecBackground, SecFindings, SecExhibits}

DefaultCaseType == <<"case", "_", "type", "_", "1">>
RequestCaseTypes == {<<>>, <<"Slip">>}

PromptA == <<"PROMPT-A">>
PromptB == <<"PROMPT-B">>
PromptC == <<"PROMPT-C">>

\* system_prompts collection contents: each document has a case_type and
\* section fields (field name -> prompt text).
StoreEmpty == <<>>
StoreGeneric ==
    << [case_type |-> <<"other">>,
        fields |-> << [k |-> <<"Background", "_", "Information">>, v |-> PromptA],
                      [k |-> <<"Findings">>, v |-> PromptB] >>] >>
StoreCaseSpecific ==
    << [case_type |-> <<"other">>,
        fields |-> << [k |-> <<"Findings">>, v |-> PromptB],
                      [k |-> <<"Background", "_", "Information">>, v |-> PromptB] >>],
       [case_type |-> <<"slip">>,
        fields |-> << [k |-> <<"Findings">>, v |-> PromptC],
                      [k |-> <<"Background", "_", "Information">>, v |-> PromptC] >>] >>
StoreFuzzy ==
    << [case_type |-> <<>>,
        fields |-> << [k |-> <<"1.4", " ", "FINDINGS">>, v |-> PromptA],
                      [k |-> <<"background">>, v |-> PromptB] >>] >>
StoreUnrelated ==
    << [case_type |-> <<"other">>,
        fields |-> << [k |-> <<"Summary">>, v |-> PromptA] >>] >>
StoreBlankValue ==
    << [case_type |-> <<"other">>,
        fields |-> << [k |-> <<"Findings">>, v |-> <<>>],
                      [k |-> <<"Background", "_", "Information">>, v |-> <<>>] >>] >>
\* the document of the case type stored before the others
StoreSpecificFirst ==
    << [case_type |-> <<"slip">>,
        fields |-> << [k |-> <<"Findings">>, v |-> PromptC],
                      [k |-> <<"Background", "_", "Information">>, v |-> PromptC] >>],
       [case_type |-> <<"other">>,
        fields |-> << [k |-> <<"1.4", " ", "FINDINGS">>, v |-> PromptA],
                      [k |-> <<"Findings">>, v |-> PromptB],
                      [k |-> <<"Background", "_", "Information">>, v |-> PromptB] >>] >>
\* keys that match a section only loosely, stored before exact keys
StoreLooseFirst ==
    << [case_type |-> <<"other">>,
        fields |-> << [k |-> <<"1.4", " ", "FINDINGS">>, v |-> PromptA],
                      [k |-> <<"Findings">>, v |-> PromptB],
                      [k |-> <<"Background", " ", "Information", " ", "Notes">>,
                       v |-> PromptC],
                      [k |-> <<"background">>, v |-> PromptB] >>] >>
PromptStores ==
    {StoreEmpty, StoreGeneric, StoreCaseSpecific, StoreFuzzy, StoreUnrelated,
     StoreBlankValue, StoreSpecificFirst, StoreLooseFirst}

(***************************************************************************)
(* InferenceService.load_system_prompts                                    *)
(***************************************************************************)
RECURSIVE CaseTypeMapping(_, _)
CaseTypeMapping(prompts, acc) ==
    IF prompts = <<>> THEN acc
    ELSE LET ct == Head(prompts).case_type
         IN  CaseTypeMapping(Tail(prompts),
                 IF Truthy(ct) THEN Put(acc, Lower(ct), ct) ELSE acc)

BestMatch(mapping, case_type) ==
    IF ~Truthy(case_type) THEN <<>>
    ELSE LET cur == Lower(case_type)
             partial == {i \in 1..Len(mapping) :
                            Contains(cur, mapping[i].k) \/ Contains(mapping[i].k, cur)}
         IN  IF HasKey(mapping, cur) THEN Get(mapping, cur)
             ELSE IF partial = {} THEN <<>>
             ELSE mapping[CHOOSE i \in partial : \A j \in partial : i <= j].v

RECURSIVE AddFields(_, _, _, _)
AddFields(fields, specific, case_type, acc) ==
    IF fields = <<>> THEN acc
    ELSE LET f == Head(fields)
             r1 == IF specific THEN Put(acc, f.k \o <<"_">> \o case_type, f.v) ELSE acc
             r2 == Put(r1, f.k, f.v)
             r3 == IF Contains(f.k, <<"_">>) THEN Put(r2, Replace(f.k, "_", " "), f.v) ELSE r2
         IN  AddFields(Tail(fields), specific, case_type, r3)

RECURSIVE AddPrompts(_, _, _, _)
AddPrompts(prompts, best, case_type, acc) ==
    IF prompts = <<>> THEN acc
    ELSE LET p == Head(prompts)
             specific == Truthy(p.case_type) /\ Truthy(best) /\ p.case_type = best
         IN  AddPrompts(Tail(prompts), best, case_type,
                        AddFields(p.fields, specific, case_type, acc))

load_system_prompts(prompts, case_type) ==
    IF prompts = <<>> THEN <<>>
    ELSE AddPrompts(prompts, BestMatch(CaseTypeMapping(prompts, <<>>), case_type),
                    case_type, <<>>)

(***************************************************************************)
(* Prompt resolution of InferenceService.query_with_batch.                 *)
(* tier: "case" | "generic" | "flexible" | "no_prompts" | "not_found"      *)
(***************************************************************************)
FlexibleMatch(section, key) ==
    LET section_normalized == Replace(section, " ", "_")
    IN  \/ Contains(Lower(key), Lower(section))
        \/ Contains(Lower(section), Lower(key))
        \/ Contains(Lower(key), Lower(section_normalized))
        \/ Contains(Lower(section_normalized), Lower(key))

ResolvePromptGenericFirst(section, case_type, table) ==
    LET section_normalized == Replace(section, " ", "_")
        section_with_spaces == Replace(section_normalized, "_", " ")
        cs1 == IF Truthy(case_type)
               THEN Get(table, section_normalized \o <<"_">> \o case_type) ELSE <<>>
        cs2 == IF Truthy(case_type) /\ ~Truthy(cs1)
               THEN Get(table, section_with_spaces \o <<"_">> \o case_type) ELSE cs1
        g1 == Get(table, section_normalized)
        g2 == IF Truthy(g1) THEN g1 ELSE Get(table, section_with_spaces)
        hits == {i \in 1..Len(table) : FlexibleMatch(section, table[i].k)}
        fx == IF hits = {} THEN <<>>
              ELSE table[CHOOSE i \in hits : \A j \in hits : i <= j].v
    IN  IF Truthy(g2) THEN [tier |-> "generic", text |-> g2]
        ELSE IF Truthy(cs2) THEN [tier |-> "case", text |-> cs2]
        ELSE IF table = <<>> THEN [tier |-> "no_prompts", text |-> <<>>]
        ELSE IF Truthy(fx) THEN [tier |-> "flexible", text |-> fx]
        ELSE [tier |-> "not_found", text |-> <<>>]

ResolvePrompt(section, case_type, table) ==
    LET section_normalized == Replace(section, " ", "_")
        section_with_spaces == Replace(section_normalized, "_", " ")
        cs1 == IF Truthy(case_type)
               THEN Get(table, section_normalized \o <<"_">> \o case_type) ELSE <<>>
        cs2 == IF Truthy(case_type) /\ ~Truthy(cs1)
               THEN Get(table, section_with_spaces \o <<"_">> \o case_type) ELSE cs1
        g1 == Get(table, section_normalized)
        g2 == IF Truthy(g1) THEN g1 ELSE Get(table, section_with_spaces)
        hits == {i \in 1..Len(table) : FlexibleMatch(section, table[i].k)}
        fx == IF hits = {} THEN <<>>
              ELSE table[CHOOSE i \in hits : \A j \in hits : i <= j].v
    IN  IF Truthy(cs2) THEN [tier |-> "case", text |-> cs2]
        ELSE IF Truthy(g2) THEN [tier |-> "generic", text |-> g2]
        ELSE IF table = <<>> THEN [tier |-> "no_prompts", text |-> <<>>]
        ELSE IF Truthy(fx) THEN [tier |-> "flexible", text |-> fx]
        ELSE [tier |-> "not_found", text |-> <<>>]

(***************************************************************************)
(* Extraction and batching of InferenceService.process_documents_in_batches*)
(* A file is [kind, content]; content <<>> means the extractor returned    *)
(* None.                                                                   *)
(***************************************************************************)
FileKinds == {"pdf", "docx", "txt"}

RECURSIVE ExtractKindKeepsEmpty(_, _)
ExtractKindKeepsEmpty(fs, kind) ==
    IF fs = <<>> THEN <<>>
    ELSE (IF Head(fs).kind = kind THEN <<Head(fs).content>> ELSE <<>>)
             \o ExtractKindKeepsEmpty(Tail(fs), kind)

RECURSIVE ExtractKind(_, _)
ExtractKind(fs, kind) ==
    IF fs = <<>> THEN <<>>
    ELSE (IF Head(fs).kind = kind /\ Truthy(Head(fs).content)
          THEN <<Head(fs).content>> ELSE <<>>) \o ExtractKind(Tail(fs), kind)

AllContent(fs) ==
    ExtractKind(fs, "pdf") \o ExtractKind(fs, "docx") \o ExtractKind(fs, "txt")

Min(a, b) == IF a < b THEN a ELSE b

MakeBatchesDropsTail(all_content, max_batch_size) ==
    LET n == Len(all_content)
        count == n \div max_batch_size
    IN  [b \in 1..count |->
            SubSeq(all_content, (b - 1) * max_batch_size + 1, b * max_batch_size)]

\* [all_content[i:i + max_batch_size] for i in range(0, len(all_content), max_batch_size)]
MakeBatches(all_content, max_batch_size) ==
    LET n == Len(all_content)
        count == (n + max_batch_size - 1) \div max_batch_size
    IN  [b \in 1..count |->
            SubSeq(all_content, (b - 1) * max_batch_size + 1,
                   Min(b * max_batch_size, n))]

process_documents(fs, max_batch_size) ==
    IF fs = <<>> THEN <<>>
    ELSE IF AllContent(fs) = <<>> THEN <<>>
    ELSE MakeBatches(AllContent(fs), max_batch_size)

(***************************************************************************)
(* Message texts.                                                          *)
(***************************************************************************)
ErrorPrefix == <<"Error:">>

NoDocumentsMarker ==
    <<"Error:", "No documents found or processed successfully for this case.">>

NoPromptsMarker ==
    <<"Error:", "Not enough information is provided.",
      "No system prompts found in MongoDB.">>

SectionPromptMissingMarker(sec) ==
    <<"Error:", "Not enough information is provided.",
      "No system prompt found for section", "'">> \o sec \o <<"'.">>

\* str(APIRateLimitError) raised by GeminiModel.predict
RateLimitExhausted == <<"Rate limit exceeded", "after maximum retries.">>

BatchRateLimitMarker == ErrorPrefix \o RateLimitExhausted

SynthesisRateLimitSentinel ==
    <<"Error:", "Could not", "create",
      "unified analysis due to persistent API rate limits", ".">>

\* the substrings the callers search the analysis text for
CallerRateLimitNeedle == <<"Error:", "Rate limit exceeded">>
CallerSynthesisNeedle ==
    <<"Error:", "Could not", "generate",
      "unified analysis due to persistent API rate limits">>
CallerUnexpectedNeedle == <<"An unexpected error occurred during analysis">>
CallerQueryingNeedle == <<"Error querying Gemini">>

DictFormatNeedle == <<"Unable to determine the intended type of the dict">>

FailureWarning ==
    <<"IMPORTANT: Some batches encountered errors, so the final result may be incomplete.">>

(***************************************************************************)
(* What one generate_content call can give (GeminiModel.predict, the body  *)
(* of the try block): generated text, a response with a block reason, a    *)
(* response without text, or an exception with a message.                  *)
(***************************************************************************)
TextReport == <<"**Findings**", "F", "**Background Information**", "B">>
TextEcho == <<"Error:", "Rate limit exceeded", "after maximum retries.">>
ModelTexts == {TextReport, TextEcho}

Err429 == <<"429", "Resource has been exhausted">>
ErrQuota == <<"Quota", "exceeded for metric">>
ErrDict == DictFormatNeedle
ErrOther == <<"500", "Internal error encountered">>
\* rate-limit errors that carry the server's retry_delay block
Err429Delay ==
    <<"429", "Resource has been exhausted", "retry_delay", " {", "\n",
      "seconds:", " ", "3", "7", "\n", "}">>
Err429DelayNanos ==
    <<"429", "Resource has been exhausted", "retry_delay", " {", "\n",
      "seconds:", " ", "7", "\n", "nanos:", " ", "5", "\n", "}">>
ErrQuotaDelay ==
    <<"Quota", "exceeded for metric", "retry_delay", " {", "\n",
      "seconds:", " ", "7", "\n", "}">>
ErrorMessages ==
    {Err429, ErrQuota, ErrDict, ErrOther, Err429Delay, Err429DelayNanos, ErrQuotaDelay}

Outcomes ==
    [kind : {"text"}, val : ModelTexts]
    \cup [kind : {"blocked", "empty"}, val : {<<>>}]
    \cup [kind : {"raise"}, val : ErrorMessages]

\* the exception text seen by predict's except clause
ErrorStr(o) ==
    CASE o.kind = "blocked" -> <<"Content generation blocked", "(SAFETY)">>
      [] o.kind = "empty" -> <<"No text returned", "(Reason: STOP).">>
      [] OTHER -> o.val

IsRateLimitClassAll(error_str_) == TRUE

IsRateLimitClass(error_str_) ==
    \/ Contains(error_str_, <<"429">>)
    \/ Contains(Lower(error_str_), <<"rate limit">>)
    \/ Contains(Lower(error_str_), <<"quota">>)

(***************************************************************************)
(* gemini_model.extract_retry_delay.  A digit is a fragment of its own, so *)
(* filter(str.isdigit, ...) keeps the digit fragments and int() reads them *)
(* as one decimal number.                                                  *)
(***************************************************************************)
Digits == <<"0", "1", "2", "3", "4", "5", "6", "7", "8", "9">>

IsDigit(t) == \E d \in 1..10 : Digits[d] = t

DigitValue(t) == (CHOOSE d \in 1..10 : Digits[d] = t) - 1

RECURSIVE DecimalValue(_)
DecimalValue(ds) ==
    IF ds = <<>> THEN 0
    ELSE 10 * DecimalValue(SubSeq(ds, 1, Len(ds) - 1)) + DigitValue(ds[Len(ds)])

\* index of the first occurrence of sub in s, 0 when absent
FindSeq(s, sub) ==
    LET at == {i \in 1..(Len(s) - Len(sub) + 1) : SubSeq(s, i, i + Len(sub) - 1) = sub}
    IN  IF at = {} THEN 0 ELSE CHOOSE i \in at : \A j \in at : i <= j

\* s.split(sep)[0] and s.split(sep)[1]; the latter is <<"IndexError">> when
\* sep does not occur
SplitHead(s, sep) ==
    LET i == FindSeq(s, sep) IN IF i = 0 THEN s ELSE SubSeq(s, 1, i - 1)

SplitSecond(s, sep) ==
    LET i == FindSeq(s, sep)
    IN  IF i = 0 THEN <<"IndexError">>
        ELSE SplitHead(SubSeq(s, i + Len(sep), Len(s)), sep)

\* buffered_delay = seconds + 2
Buffered(seconds) == seconds + 2

extract_retry_delay(error_message, default_delay) ==
    IF ~Contains(error_message, <<"429">>) THEN default_delay
    ELSE IF ~Contains(error_message, <<"retry_delay">>) THEN default_delay
    ELSE LET after == SplitSecond(error_message, <<"retry_delay", " {">>)
             retry_delay_section == SplitHead(after, <<"}">>)
             seconds_str == SplitSecond(retry_delay_section, <<"seconds:">>)
             digits == SelectSeq(seconds_str, IsDigit)
         IN  IF after = <<"IndexError">> \/ seconds_str = <<"IndexError">>
                \/ digits = <<>>
             THEN default_delay
             ELSE Buffered(DecimalValue(digits))

BackoffLinear(base, rc) == base * (rc + 1)

\* default_delay = base_retry_delay * (2 ** retry_count)
Backoff(base, rc) == base * (2 ^ rc)

SleepDelayFirstOnly(o, rc, base) ==
    IF o.kind # "text" /\ IsRateLimitClass(ErrorStr(o)) /\ rc = 0
    THEN extract_retry_delay(ErrorStr(o), Backoff(base, rc))
    ELSE 0

\* the delay slept by the except clause for outcome o at retry counter rc;
\* 0 when the clause does not sleep
SleepDelay(o, rc, base) ==
    IF o.kind # "text" /\ IsRateLimitClass(ErrorStr(o))
    THEN extract_retry_delay(ErrorStr(o), Backoff(base, rc))
    ELSE 0

(***************************************************************************)
(* One attempt of GeminiModel.predict: the result of the loop body for     *)
(* outcome o at retry counter rc.                                          *)
(*   "return"  text returned                                               *)
(*   "retry"   rate limited, retry_count incremented, loop continues       *)
(*   "rate"    rate limited and the loop ends: APIRateLimitError           *)
(*   "api"     APIError with the given message                             *)
(***************************************************************************)
PredictStepEarlyStop(o, rc, maxr) ==
    IF o.kind = "text" THEN [res |-> "return", val |-> o.val, rc |-> rc]
    ELSE IF IsRateLimitClass(ErrorStr(o))
         THEN IF rc + 1 < maxr
              THEN [res |-> "retry", val |-> <<>>, rc |-> rc + 1]
              ELSE [res |-> "rate", val |-> RateLimitExhausted, rc |-> rc + 1]
         ELSE [res |-> "api", val |-> <<"Gemini API error:">> \o ErrorStr(o), rc |-> rc]

PredictStep(o, rc, maxr) ==
    IF o.kind = "text" THEN [res |-> "return", val |-> o.val, rc |-> rc]
    ELSE IF IsRateLimitClass(ErrorStr(o))
         THEN IF rc + 1 <= maxr
              THEN [res |-> "retry", val |-> <<>>, rc |-> rc + 1]
              ELSE [res |-> "rate", val |-> RateLimitExhausted, rc |-> rc + 1]
         ELSE [res |-> "api", val |-> <<"Gemini API error:">> \o ErrorStr(o), rc |-> rc]

(***************************************************************************)
(* What the caller of predict does with its result.                        *)
(*   ctx "batch": query_with_batch, first predict call                     *)
(*   ctx "fix"  : query_with_batch, predict call of the format-fix path    *)
(*   ctx "synth": create_unified_analysis, synthesis predict call          *)
(* next: "fix" (enter the format-fix predict call), "query_returned" or    *)
(* "analysis_returned", with the text returned.                            *)
(***************************************************************************)
AfterPredict(c, st) ==
    CASE c = "batch" ->
            IF st.res = "return" THEN [next |-> "query_returned", text |-> st.val]
            ELSE IF st.res = "rate"
                 THEN [next |-> "query_returned", text |-> BatchRateLimitMarker]
            ELSE IF Contains(st.val, DictFormatNeedle)
                 THEN [next |-> "fix", text |-> <<>>]
            ELSE [next |-> "query_returned", text |-> ErrorPrefix \o st.val]
      [] c = "fix" ->
            IF st.res = "return" THEN [next |-> "query_returned", text |-> st.val]
            ELSE [next |-> "query_returned",
                  text |-> <<"Error:", "Failed to fix format and retry:">> \o st.val]
      [] OTHER ->
            IF st.res = "return" THEN [next |-> "analysis_returned", text |-> st.val]
            ELSE IF st.res = "rate"
                 THEN [next |-> "analysis_returned", text |-> SynthesisRateLimitSentinel]
            ELSE [next |-> "analysis_returned", text |-> ErrorPrefix \o st.val]

\* create_unified_analysis, loop body: what is appended to batch_results
BatchFailed(resp) == StartsWith(resp, ErrorPrefix)

BatchEntry(i, resp) ==
    IF BatchFailed(resp)
    THEN <<"[[ERROR PROCESSING BATCH", ToString(i), ":">> \o resp \o <<"]]">>
    ELSE resp

BatchBlockFirstIndex(idx, result) ==
    <<"--- ANALYSIS FROM BATCH", ToString(1), "---">> \o result
        \o <<"--- END OF BATCH", ToString(1), "---">>

BatchBlock(idx, result) ==
    <<"--- ANALYSIS FROM BATCH", ToString(idx), "---">> \o result
        \o <<"--- END OF BATCH", ToString(idx), "---">>

RECURSIVE CombinedText(_, _)
CombinedText(results, idx) ==
    IF idx > Len(results) THEN <<>>
    ELSE BatchBlock(idx, results[idx]) \o CombinedText(results, idx + 1)

SynthesisPromptNoWarning(sec, results, failed) ==
    <<"You are provided with analyses generated from different text batches.",
      "Focus on the section:">> \o sec
        \o <<"Collected Batches:">> \o CombinedText(results, 1)

SynthesisPrompt(sec, results, failed) ==
    (IF failed THEN FailureWarning ELSE <<>>)
        \o <<"You are provided with analyses generated from different text batches.",
             "Focus on the section:">> \o sec
        \o <<"Collected Batches:">> \o CombinedText(results, 1)

ShortcutIgnoresFailure(results, failed) == Len(results) = 1

ShortcutOnFailure(results, failed) == failed \/ Len(results) = 1

\* the single-batch shortcut of create_unified_analysis
Shortcut(results, failed) == Len(results) = 1 /\ ~failed

(***************************************************************************)
(* Callers of create_unified_analysis: what they make of its text.         *)
(***************************************************************************)
GeminiError(rt) ==
    IF Contains(rt, CallerRateLimitNeedle) \/ Contains(rt, CallerSynthesisNeedle)
    THEN "Rate limit exceeded"
    ELSE IF Contains(rt, CallerUnexpectedNeedle) \/ Contains(rt, CallerQueryingNeedle)
    THEN "Internal Gemini error"
    ELSE "none"

\* reply: status is the HTTP status (0 for the pipeline, which returns a dict),
\* kind names the payload, text is the analysis text handed to the splitter.
Reply(status, kind, error, text) ==
    [status |-> status, kind |-> kind, error |-> error, text |-> text]

NoReply == Reply(0, "none", "", <<>>)

QueryCaseReply(sec, rt) ==
    LET ge == GeminiError(rt)
    IN  IF ge = "Rate limit exceeded"
        THEN IF sec = SecBackground
             THEN Reply(429, "default", ge, <<>>)
             ELSE Reply(429, "high_load", ge, <<>>)
        ELSE IF ge = "Internal Gemini error"
        THEN IF sec = SecBackground
             THEN Reply(500, "default", ge, <<>>)
             ELSE Reply(500, "internal", ge, <<>>)
        ELSE IF sec = SecBackground
        THEN IF rt = <<>> \/ StartsWith(rt, ErrorPrefix)
             THEN Reply(200, "default", "", <<>>)
             ELSE Reply(200, "parse_background_response", "", rt)
        ELSE Reply(200, "extract_findings_and_background", "", rt)

QueryCaseExceptReply(sec, e) ==
    IF e.type = "ValueError"
    THEN IF Contains(e.msg, <<"Case not found">>)
         THEN Reply(404, "detail", "ValueError", e.msg)
         ELSE Reply(400, "detail", "ValueError", e.msg)
    ELSE IF sec = SecBackground THEN Reply(200, "default", "", <<>>)
    ELSE IF IsRateLimitClass(e.msg) THEN Reply(429, "quota", "exception", <<>>)
    ELSE Reply(500, "unexpected", "exception", <<>>)

PipelineReply(sec, rt) ==
    LET ge == GeminiError(rt)
    IN  IF ge = "Rate limit exceeded" THEN Reply(0, "high_load", ge, <<>>)
        ELSE IF ge = "Internal Gemini error" THEN Reply(0, "internal", ge, <<>>)
        ELSE IF sec = SecBackground THEN Reply(0, "parse_background_response", "", rt)
        ELSE Reply(0, "extract_findings_and_background", "", rt)

PipelineExceptReply(sec, e) == Reply(0, "exception", "exception", e.msg)

MkdtempError ==
    [type |-> "RuntimeError", msg |-> <<"Failed to create temporary directory:", "ENOSPC">>]
ModelLoadingError ==
    [type |-> "ModelLoadingError",
     msg |-> <<"Failed to load model", "'gemini_gemini-2.5-flash-preview-04-17'", ":",
               "Failed to load Gemini model:", "Missing Google API key.">>]
NoException == [type |-> "none", msg |-> <<>>]

(***************************************************************************)
(* postprocessing.extract_findings_and_background and                      *)
(* postprocessing.parse_background_response.  A text is a sequence of      *)
(* fragments; a header is one fragment, so str.find is the index of the    *)
(* first fragment equal to the header (0 for Python's -1) and the slice    *)
(* text[a:b] is SubSeq(text, a, b - 1) over these 1-based indices.         *)
(***************************************************************************)
CanonicalFindingsHeader == "**1.4 Findings**"

findings_headers ==
    <<"**1.4 Findings**", "**Findings**", "**1.4. Findings**",
      "**1.4 FINDINGS**", "**FINDINGS**">>

background_headers ==
    <<"**2. Background Information**", "**2.0 Background Information**",
      "**Background Information**", "**BACKGROUND INFORMATION**",
      "**2. BACKGROUND INFORMATION**", "**2.0 BACKGROUND INFORMATION**">>

background_marker == "**Background Information**"

Whitespace == {" ", "\n"}

\* str.find(fragment): index of the first occurrence, 0 when absent
Find(s, t) ==
    IF \E i \in 1..Len(s) : s[i] = t
    THEN CHOOSE i \in 1..Len(s) : s[i] = t /\ \A j \in 1..(i - 1) : s[j] # t
    ELSE 0

\* text[a:] and text[a:b] over 1-based indices
SliceFrom(s, a) == SubSeq(s, a, Len(s))

SliceInclusive(s, a, b) == SubSeq(s, a, b)

Slice(s, a, b) == SubSeq(s, a, b - 1)

RECURSIVE LStrip(_)
LStrip(s) ==
    IF s # <<>> /\ Head(s) \in Whitespace THEN LStrip(Tail(s)) ELSE s

RECURSIVE RStrip(_)
RStrip(s) ==
    IF s # <<>> /\ s[Len(s)] \in Whitespace
    THEN RStrip(SubSeq(s, 1, Len(s) - 1)) ELSE s

\* str.strip()
Strip(s) == RStrip(LStrip(s))

\* str.replace(a, b, 1)
ReplaceFirst(s, a, b) ==
    LET i == Find(s, a)
    IN  IF i = 0 THEN s ELSE [j \in 1..Len(s) |-> IF j = i THEN b ELSE s[j]]

\* the loop over a header list: the earliest occurrence of any header, the
\* first header of the list winning a tie
RECURSIVE EarliestHeader(_, _, _, _)
EarliestHeader(s, headers, start, found) ==
    IF headers = <<>> THEN [start |-> start, header |-> found]
    ELSE LET pos == Find(s, Head(headers))
         IN  IF pos # 0 /\ (start = 0 \/ pos < start)
             THEN EarliestHeader(s, Tail(headers), pos, Head(headers))
             ELSE EarliestHeader(s, Tail(headers), start, found)

\* "finding" in part.lower(): the fragments whose lower case holds the word
FindingWordFragments ==
    {"finding", "findings", "**findings**"}
        \cup {findings_headers[i] : i \in DOMAIN findings_headers}

HasFindingWord(part) == \E i \in 1..Len(part) : part[i] \in FindingWordFragments

\* the defaults the function starts from
default_parts_stripped(text) == [findings |-> <<>>, background |-> Strip(text)]

default_parts(text) == [findings |-> <<>>, background |-> text]

extract_no_normalize(f, part) == part

normalize_findings_header(f, part) ==
    IF f.header # "" /\ f.header # CanonicalFindingsHeader
    THEN ReplaceFirst(part, f.header, CanonicalFindingsHeader)
    ELSE part

extract_findings_and_background(text) ==
    LET f == EarliestHeader(text, findings_headers, 0, "")
        b == EarliestHeader(text, background_headers, 0, "")
        start_findings == f.start
        start_background == b.start
        pre_background == Strip(Slice(text, 1, start_background))
        \* the if / elif on what was found
        fp1 == IF start_findings # 0
               THEN normalize_findings_header(f,
                        IF start_background # 0
                        THEN Strip(Slice(text, start_findings, start_background))
                        ELSE Strip(SliceFrom(text, start_findings)))
               ELSE IF start_background # 0 /\ pre_background # <<>>
               THEN <<CanonicalFindingsHeader, "\n">> \o pre_background
               ELSE default_parts(text).findings
        bp1 == IF start_findings # 0
               THEN IF start_background # 0
                    THEN Strip(SliceFrom(text, start_background))
                    ELSE <<>>
               ELSE IF start_background # 0
               THEN Strip(SliceFrom(text, start_background))
               ELSE default_parts(text).background
        \* findings looked for in front of a background that mentions them
        fp2 == IF fp1 = <<>> /\ bp1 # <<>>
                  /\ HasFindingWord(bp1) /\ start_background # 0
                  /\ pre_background # <<>>
               THEN <<CanonicalFindingsHeader, "\n">> \o pre_background
               ELSE fp1
        \* the whole text as background when nothing was extracted
        bp2 == IF bp1 = <<>> /\ text # <<>> /\ fp2 = <<>>
               THEN text ELSE bp1
    IN  [findings |-> fp2, background |-> bp2]

parse_background_ignores_marker(text) ==
    extract_findings_and_background(text)

parse_background_response(text) ==
    LET background_index == Find(text, background_marker)
    IN  IF background_index # 0
        THEN [findings |-> Strip(Slice(text, 1, background_index)),
              background |-> Strip(SliceFrom(text, background_index))]
        ELSE extract_findings_and_background(text)

(***************************************************************************)
(* State.                                                                  *)
(***************************************************************************)
VARIABLES
    caller,            \* "query_case" or "pipeline"
    section,           \* requested section
    request_case_type, \* request.case_type (<<>> when not given)
    prompt_store,      \* documents of the system_prompts collection
    files,             \* files of the case found in the temporary directory
    batch_size,        \* create_unified_analysis parameter
    max_retries,       \* create_unified_analysis / query_with_batch parameter
    case_exists,       \* case_repo.get_by_case_id finds the case
    mkdtemp_ok,        \* tempfile.mkdtemp succeeds
    model_loads,       \* model_loader.get_model succeeds (API key configured)
    case_type,         \* InferenceService.case_type
    system_prompts,    \* InferenceService.system_prompts
    temp_dir,          \* TRUE while InferenceService.temp_dir exists on disk
    batches,           \* result of process_documents_in_batches
    bi,                \* 1-based index of the batch being queried
    batch_results,     \* create_unified_analysis.batch_results
    processing_failed, \* create_unified_analysis.processing_failed
    synthesis_prompt,  \* prompt handed to the synthesis predict call
    ctx,               \* which predict call is running: "batch", "fix", "synth"
    retry_count,       \* GeminiModel.predict.retry_count
    response,          \* value returned by query_with_batch
    response_text,     \* value returned by create_unified_analysis
    exc,               \* exception propagating to the caller
    reply,             \* what the caller answers
    pc,                \* position of the request
    calls,             \* generate_content calls of the current query_with_batch
    all_rate_limited,  \* every one of those calls ended in a rate-limit-class error
    synth_calls,       \* generate_content calls of the synthesis predict call
    synth_result,      \* how the synthesis predict call ended
    model_called,      \* some generate_content call was made in this request
    findings_part,     \* first value returned by the splitter
    background_part,   \* second value returned by the splitter
    query_log,         \* history: what each query_with_batch call returned
    error_str,         \* GeminiModel.predict.error_str of the last attempt
    retry_delay,       \* GeminiModel.predict.retry_delay slept after it (0: no sleep)
    predict_result,    \* how the last predict call ended ("running" inside the loop)
    task_pc,           \* position of the asyncio task running _query_case_task
    heartbeat_task,    \* the task made from heartbeat_coro
    client_connected,  \* the socket client is connected
    disconnect_event,  \* the disconnect handler is waiting for the event loop
    task_registered,   \* socket_manager.tasks[sid] holds the task
    cancel_requested,  \* task.cancel() was called and not yet delivered
    heartbeat_sent,    \* a task_progress heartbeat was emitted
    delivered,         \* what the client received for the query
    disconnected_in_backoff,  \* history: the client left between two attempts
    task_status,       \* the 'status' start_background_task last recorded for the task
    task_event,        \* the task event start_background_task last emitted
    temp_dir_path,     \* InferenceService.temp_dir: None or the directory it names
    disk,              \* the directories made by mkdtemp that exist on disk
    invocation,        \* number of create_unified_analysis calls on the instance
    created,           \* the directory made by the present call (None: not made)
    exit_path,         \* how the present call left its try block
    td_pc,             \* position of the present call
    batch_loop,        \* the retry loop of GeminiHandler.query_with_batch
    synthesis_loop,    \* the retry loop of GeminiHandler.create_unified_analysis
    system_prompt_text, \* query_with_batch.system_prompt_text after the lookup
    result,            \* the dictionary returned by parse_text_to_json
    sleeps             \* time.sleep calls made by the present predict call

inputs == <<caller, section, request_case_type, prompt_store, files, batch_size,
            max_retries, case_exists, mkdtemp_ok, model_loads>>
service == <<case_type, system_prompts>>
analysis == <<batches, bi, batch_results, processing_failed, synthesis_prompt>>
counters == <<calls, all_rate_limited, synth_calls, synth_result, model_called>>
splitter == <<findings_part, background_part>>
predict == <<error_str, retry_delay, predict_result, sleeps>>
socket == <<task_pc, heartbeat_task, client_connected, disconnect_event,
            task_registered, cancel_requested, heartbeat_sent, delivered,
            disconnected_in_backoff, task_status, task_event>>
registry == <<task_status, task_event>>
tempdirs == <<temp_dir_path, disk, invocation, created, exit_path, td_pc>>
loops == <<batch_loop, synthesis_loop>>
prompt == <<system_prompt_text>>
parsed == <<result>>
vars == <<inputs, service, temp_dir, analysis, ctx, retry_count, response,
          response_text, exc, reply, pc, counters, splitter, query_log, predict,
          socket, tempdirs, loops, prompt, parsed>>

\* parameters passed by predictions.query_case and InferencePipeline.process
RequestBatchSize == 3
RequestMaxRetries == 3
RequestBaseRetryDelay == 5

\* query_with_batch has not looked a prompt up
NoPrompt == system_prompt_text = <<>>

\* parse_text_to_json was not called
NoResult == result = [response_of_findings |-> <<>>, response |-> <<>>]

NoSplit == findings_part = <<>> /\ background_part = <<>>
NoPredict ==
    error_str = <<>> /\ retry_delay = 0 /\ predict_result = "none" /\ sleeps = 0
\* a request that does not come over the socket
NoSocket ==
    /\ task_pc = "none" /\ heartbeat_task = "none"
    /\ client_connected = FALSE /\ disconnect_event = FALSE
    /\ task_registered = FALSE /\ cancel_requested = FALSE
    /\ heartbeat_sent = FALSE /\ delivered = "none"
    /\ disconnected_in_backoff = FALSE
    /\ task_status = "none" /\ task_event = "none"

None == 0

\* no create_unified_analysis call was made on the instance
NoTempDirs ==
    /\ temp_dir_path = None /\ disk = {} /\ invocation = 0
    /\ created = None /\ exit_path = "none" /\ td_pc = "idle"

\* a retry loop: its counter, the generate_content calls made, the delays
\* slept, and how it ended
LoopAt(res) ==
    [retry_count |-> 0, attempts |-> 0, delays |-> <<>>, res |-> res, val |-> <<>>]

\* no retry loop of GeminiHandler is being compared
NoLoops == batch_loop = LoopAt("none") /\ synthesis_loop = LoopAt("none")

DocText(i) == <<"doc", ToString(i)>>

MkFiles(kinds, ok) ==
    [i \in DOMAIN kinds |->
        [kind |-> kinds[i], content |-> IF ok[i] THEN DocText(i) ELSE <<>>]]

\* every directory content of up to MaxFiles files
AllFiles ==
    UNION {{MkFiles(kinds, ok) : kinds \in [1..n -> FileKinds], ok \in [1..n -> BOOLEAN]}
           : n \in 0..MaxFiles}

CycleKind(i) ==
    CASE i % 3 = 1 -> "txt" [] i % 3 = 2 -> "pdf" [] OTHER -> "docx"

\* directory contents used for whole requests: kinds in a fixed rotation,
\* the first k files extractable and the others not
RequestFiles ==
    UNION {{MkFiles([i \in 1..n |-> CycleKind(i)], [i \in 1..n |-> i <= k]) : k \in 0..n}
           : n \in 0..MaxRequestFiles}

RequestStores == {StoreEmpty, StoreGeneric, StoreUnrelated}
ServiceCaseTypes == {<<>>, <<"Slip">>, DefaultCaseType}

Idle ==
    /\ temp_dir = FALSE
    /\ batches = <<>> /\ bi = 0 /\ batch_results = <<>> /\ processing_failed = FALSE
    /\ synthesis_prompt = <<>>
    /\ ctx = "none" /\ retry_count = 0 /\ response = <<>>
    /\ response_text = <<>> /\ exc = NoException /\ reply = NoReply
    /\ calls = 0 /\ all_rate_limited = TRUE /\ synth_calls = 0
    /\ synth_result = "none" /\ model_called = FALSE
    /\ NoTempDirs /\ NoLoops /\ NoPrompt /\ NoResult /\ NoSplit /\ NoPredict /\ query_log = <<>> /\ NoSocket

\* a request arriving at predictions.query_case or InferencePipeline.process
Init ==
    /\ caller \in {"query_case", "pipeline"}
    /\ section \in Sections
    /\ request_case_type \in RequestCaseTypes
    /\ prompt_store \in RequestStores
    /\ files \in RequestFiles
    /\ batch_size = RequestBatchSize
    /\ max_retries = RequestMaxRetries
    /\ case_exists \in BOOLEAN
    /\ mkdtemp_ok \in BOOLEAN
    /\ model_loads \in BOOLEAN
    /\ case_type = <<>> /\ system_prompts = <<>>
    /\ Idle
    /\ pc = "request"

(***************************************************************************)
(* predictions.query_case / InferencePipeline.process up to the call of    *)
(* create_unified_analysis.                                                *)
(***************************************************************************)
Request ==
    /\ pc = "request"
    /\ IF caller = "query_case" /\ ~case_exists
       THEN /\ reply' = Reply(404, "detail", "not_found", <<>>)
            /\ pc' = "done"
            /\ UNCHANGED service
       ELSE LET ct == IF caller = "query_case" /\ ~Truthy(request_case_type)
                      THEN DefaultCaseType ELSE request_case_type
            IN  /\ case_type' = ct
                /\ system_prompts' = load_system_prompts(prompt_store, ct)
                /\ IF section = SecExhibits
                   THEN /\ reply' = Reply(IF caller = "query_case" THEN 200 ELSE 0,
                                          "exhibits", "", <<>>)
                        /\ pc' = "done"
                   ELSE /\ reply' = reply
                        /\ pc' = "analysis"
    /\ UNCHANGED <<inputs, parsed, prompt, loops, tempdirs, splitter, socket, query_log, predict, temp_dir, analysis, ctx, retry_count, response,
                   response_text, exc, counters>>

(***************************************************************************)
(* InferenceService.process_documents_in_batches                           *)
(***************************************************************************)
ProcessDocuments ==
    /\ pc = "analysis"
    /\ IF ~mkdtemp_ok
       THEN /\ exc' = MkdtempError
            /\ temp_dir' = FALSE
            /\ pc' = "raised"
            /\ UNCHANGED batches
       ELSE /\ batches' = process_documents(files, batch_size)
            /\ temp_dir' = TRUE
            /\ pc' = "batches_ready"
            /\ UNCHANGED exc
    /\ UNCHANGED <<inputs, parsed, prompt, loops, tempdirs, splitter, socket, query_log, predict, service, bi, batch_results, processing_failed,
                   synthesis_prompt, ctx, retry_count, response, response_text,
                   reply, counters>>

(***************************************************************************)
(* create_unified_analysis: the check for an empty batch list and the      *)
(* start of the batch loop.                                                *)
(***************************************************************************)
AnalysisBegin ==
    /\ pc = "batches_ready"
    /\ IF batches = <<>>
       THEN /\ response_text' = NoDocumentsMarker
            /\ temp_dir' = FALSE
            /\ pc' = "analysis_returned"
            /\ UNCHANGED bi
       ELSE /\ bi' = 1
            /\ pc' = "query"
            /\ UNCHANGED <<response_text, temp_dir>>
    /\ UNCHANGED <<inputs, parsed, prompt, loops, tempdirs, splitter, socket, query_log, predict, service, batches, batch_results, processing_failed,
                   synthesis_prompt, ctx, retry_count, response, exc, reply, counters>>

(***************************************************************************)
(* InferenceService.query_with_batch up to its first predict call.         *)
(***************************************************************************)
EmptyBatchMarker == <<"Error:", "Empty batch provided for querying.">>

PromptFound(r) == r.tier \in {"case", "generic", "flexible"}

\* the text query_with_batch returns when it does not reach the model
PromptError(sec, r) ==
    IF r.tier = "no_prompts" THEN NoPromptsMarker
    ELSE SectionPromptMissingMarker(sec)

QueryWithBatch ==
    /\ pc = "query"
    /\ calls' = 0
    /\ all_rate_limited' = TRUE
    /\ LET r == ResolvePrompt(section, case_type, system_prompts)
       IN  IF batches[bi] = <<>>
           THEN /\ response' = EmptyBatchMarker
                /\ pc' = "query_returned"
                /\ UNCHANGED <<ctx, retry_count, exc, temp_dir>>
           ELSE IF ~PromptFound(r)
           THEN /\ response' = PromptError(section, r)
                /\ pc' = "query_returned"
                /\ UNCHANGED <<ctx, retry_count, exc, temp_dir>>
           ELSE IF ~model_loads
           THEN /\ exc' = ModelLoadingError
                /\ temp_dir' = FALSE
                /\ pc' = "raised"
                /\ UNCHANGED <<ctx, retry_count, response>>
           ELSE /\ ctx' = "batch"
                /\ retry_count' = 0
                /\ pc' = "predict"
                /\ UNCHANGED <<response, exc, temp_dir>>
    /\ query_log' = IF pc' = "query_returned"
                    THEN Append(query_log, [batch |-> bi, result |-> response'])
                    ELSE query_log
    /\ system_prompt_text' =
          IF batches[bi] = <<>> THEN <<>>
          ELSE ResolvePrompt(section, case_type, system_prompts).text
    /\ error_str' = <<>> /\ retry_delay' = 0 /\ predict_result' = "none"
    /\ sleeps' = 0
    /\ UNCHANGED <<inputs, parsed, loops, tempdirs, splitter, socket, service, analysis, response_text, reply,
                   synth_calls, synth_result, model_called>>

(***************************************************************************)
(* One iteration of the retry loop of GeminiModel.predict: one             *)
(* generate_content call, the except clause, and when predict ends, the    *)
(* handling of its result by the caller.                                   *)
(***************************************************************************)
GenerateContent ==
    /\ pc = "predict"
    /\ retry_count <= max_retries
    /\ \E o \in Outcomes :
        LET st == PredictStep(o, retry_count, max_retries)
            a == AfterPredict(ctx, st)
            rate_limited == o.kind # "text" /\ IsRateLimitClass(ErrorStr(o))
        IN  /\ model_called' = TRUE
            /\ error_str' = IF o.kind = "text" THEN <<>> ELSE ErrorStr(o)
            /\ retry_delay' = SleepDelay(o, retry_count, RequestBaseRetryDelay)
            /\ sleeps' = IF st.res # "retry" /\ a.next = "fix" THEN 0
                         ELSE IF SleepDelay(o, retry_count, RequestBaseRetryDelay) > 0
                         THEN sleeps + 1
                         ELSE sleeps
            /\ predict_result' = IF st.res = "retry" THEN "running" ELSE st.res
            /\ query_log' = IF st.res # "retry" /\ a.next = "query_returned"
                            THEN Append(query_log, [batch |-> bi, result |-> a.text])
                            ELSE query_log
            /\ IF ctx = "synth"
               THEN /\ synth_calls' = synth_calls + 1
                    /\ synth_result' = IF st.res = "retry" THEN synth_result ELSE st.res
                    /\ UNCHANGED <<calls, all_rate_limited>>
               ELSE /\ calls' = calls + 1
                    /\ all_rate_limited' = (all_rate_limited /\ rate_limited)
                    /\ UNCHANGED <<synth_calls, synth_result>>
            /\ IF st.res = "retry"
               THEN /\ retry_count' = st.rc
                    /\ UNCHANGED <<ctx, response, response_text, temp_dir, pc>>
               ELSE IF a.next = "fix"
               THEN /\ ctx' = "fix"
                    /\ retry_count' = 0
                    /\ UNCHANGED <<response, response_text, temp_dir, pc>>
               ELSE IF a.next = "query_returned"
               THEN /\ response' = a.text
                    /\ retry_count' = 0
                    /\ pc' = "query_returned"
                    /\ UNCHANGED <<ctx, response_text, temp_dir>>
               ELSE /\ response_text' = a.text
                    /\ retry_count' = 0
                    /\ temp_dir' = FALSE
                    /\ pc' = "analysis_returned"
                    /\ UNCHANGED <<ctx, response>>
    /\ UNCHANGED <<inputs, parsed, prompt, loops, tempdirs, splitter, socket, service, analysis, exc, reply>>

(***************************************************************************)
(* create_unified_analysis after query_with_batch returned: the rest of    *)
(* the loop body, and after the last batch the shortcut or the start of    *)
(* the synthesis predict call.                                             *)
(***************************************************************************)
BatchLoopStep ==
    /\ pc = "query_returned"
    /\ LET results == Append(batch_results, BatchEntry(bi, response))
           failed == processing_failed \/ BatchFailed(response)
       IN  /\ batch_results' = results
           /\ processing_failed' = failed
           /\ IF bi < Len(batches)
              THEN /\ bi' = bi + 1
                   /\ pc' = "query"
                   /\ UNCHANGED <<synthesis_prompt, ctx, retry_count, response_text,
                                  exc, temp_dir>>
              ELSE IF Shortcut(results, failed)
              THEN /\ response_text' = results[1]
                   /\ temp_dir' = FALSE
                   /\ pc' = "analysis_returned"
                   /\ UNCHANGED <<bi, synthesis_prompt, ctx, retry_count, exc>>
              ELSE IF ~model_loads
              THEN /\ exc' = ModelLoadingError
                   /\ temp_dir' = FALSE
                   /\ pc' = "raised"
                   /\ UNCHANGED <<bi, synthesis_prompt, ctx, retry_count, response_text>>
              ELSE /\ synthesis_prompt' = SynthesisPrompt(section, results, failed)
                   /\ ctx' = "synth"
                   /\ retry_count' = 0
                   /\ pc' = "predict"
                   /\ UNCHANGED <<bi, response_text, exc, temp_dir>>
    /\ calls' = 0
    /\ all_rate_limited' = TRUE
    /\ error_str' = <<>> /\ retry_delay' = 0 /\ predict_result' = "none"
    /\ sleeps' = 0
    /\ UNCHANGED <<inputs, parsed, prompt, loops, tempdirs, splitter, socket, query_log, service, batches, response, reply,
                   synth_calls, synth_result, model_called>>

(***************************************************************************)
(* The caller after create_unified_analysis returned or raised.            *)
(***************************************************************************)
Respond ==
    /\ pc = "analysis_returned"
    /\ reply' = IF caller = "query_case"
                THEN QueryCaseReply(section, response_text)
                ELSE PipelineReply(section, response_text)
    /\ pc' = "done"
    /\ UNCHANGED <<inputs, parsed, prompt, loops, tempdirs, splitter, socket, query_log, predict, service, temp_dir, analysis, ctx, retry_count, response,
                   response_text, exc, counters>>

RespondException ==
    /\ pc = "raised"
    /\ reply' = IF caller = "query_case"
                THEN QueryCaseExceptReply(section, exc)
                ELSE PipelineExceptReply(section, exc)
    /\ pc' = "done"
    /\ UNCHANGED <<inputs, parsed, prompt, loops, tempdirs, splitter, socket, query_log, predict, service, temp_dir, analysis, ctx, retry_count, response,
                   response_text, exc, counters>>

Next ==
    \/ Request
    \/ ProcessDocuments
    \/ AnalysisBegin
    \/ QueryWithBatch
    \/ GenerateContent
    \/ BatchLoopStep
    \/ Respond
    \/ RespondException

Spec == Init /\ [][Next]_vars

(***************************************************************************)
(* InferenceService.query_with_batch on its own: one batch, every stored   *)
(* prompt collection, every case type of the service, max_retries from 0   *)
(* to MaxRetries.                                                          *)
(***************************************************************************)
InitQuery ==
    /\ caller = "query_case"
    /\ section \in Sections
    /\ request_case_type = <<>>
    /\ prompt_store \in PromptStores
    /\ files = <<>>
    /\ batch_size = RequestBatchSize
    /\ max_retries \in 0..MaxRetries
    /\ case_exists = TRUE
    /\ mkdtemp_ok = TRUE
    /\ model_loads \in BOOLEAN
    /\ case_type \in ServiceCaseTypes
    /\ system_prompts = load_system_prompts(prompt_store, case_type)
    /\ temp_dir = TRUE
    /\ batches = << <<DocText(1)>> >> /\ bi = 1
    /\ batch_results = <<>> /\ processing_failed = FALSE /\ synthesis_prompt = <<>>
    /\ ctx = "none" /\ retry_count = 0 /\ response = <<>>
    /\ response_text = <<>> /\ exc = NoException /\ reply = NoReply
    /\ calls = 0 /\ all_rate_limited = TRUE /\ synth_calls = 0
    /\ synth_result = "none" /\ model_called = FALSE
    /\ NoTempDirs /\ NoLoops /\ NoPrompt /\ NoResult /\ NoSplit /\ NoPredict /\ query_log = <<>> /\ NoSocket
    /\ pc = "query"

NextQuery == QueryWithBatch \/ GenerateContent

SpecQuery == InitQuery /\ [][NextQuery]_vars

(***************************************************************************)
(* InferenceService.process_documents_in_batches on its own: every         *)
(* directory content of up to MaxFiles files, max_batch_size from 1 to     *)
(* MaxBatchSize.                                                           *)
(***************************************************************************)
InitBatcher ==
    /\ caller = "query_case"
    /\ section = SecFindings
    /\ request_case_type = <<>>
    /\ prompt_store = StoreGeneric
    /\ files \in AllFiles
    /\ batch_size \in 1..MaxBatchSize
    /\ max_retries = RequestMaxRetries
    /\ case_exists = TRUE
    /\ mkdtemp_ok \in BOOLEAN
    /\ model_loads = TRUE
    /\ case_type = DefaultCaseType
    /\ system_prompts = load_system_prompts(prompt_store, case_type)
    /\ Idle
    /\ pc = "analysis"

NextBatcher == ProcessDocuments

SpecBatcher == InitBatcher /\ [][NextBatcher]_vars

(***************************************************************************)
(* The splitter on its own: every text of up to MaxTextLen fragments,      *)
(* split by extract_findings_and_background and by                         *)
(* parse_background_response.                                              *)
(***************************************************************************)
SplitFragments ==
    {"**1.4 Findings**", "**Findings**", "**FINDINGS**", "**1.4. Findings**",
     "**Background Information**", "**2. Background Information**",
     " ", "x", "finding"}

SplitTexts == UNION {[1..n -> SplitFragments] : n \in 0..MaxTextLen}

InitSplitter ==
    /\ caller = "query_case"
    /\ section = SecFindings
    /\ request_case_type = <<>>
    /\ prompt_store = StoreGeneric
    /\ files = <<>>
    /\ batch_size = RequestBatchSize
    /\ max_retries = RequestMaxRetries
    /\ case_exists = TRUE
    /\ mkdtemp_ok = TRUE
    /\ model_loads = TRUE
    /\ case_type = DefaultCaseType
    /\ system_prompts = load_system_prompts(prompt_store, case_type)
    /\ temp_dir = FALSE
    /\ batches = <<>> /\ bi = 0 /\ batch_results = <<>> /\ processing_failed = FALSE
    /\ synthesis_prompt = <<>>
    /\ ctx = "none" /\ retry_count = 0 /\ response = <<>>
    /\ response_text \in SplitTexts
    /\ exc = NoException /\ reply = NoReply
    /\ calls = 0 /\ all_rate_limited = TRUE /\ synth_calls = 0
    /\ synth_result = "none" /\ model_called = FALSE
    /\ NoTempDirs /\ NoLoops /\ NoPrompt /\ NoResult /\ NoSplit /\ NoPredict /\ query_log = <<>> /\ NoSocket
    /\ pc = "split"

ExtractFindingsAndBackground ==
    /\ pc = "split"
    /\ LET r == extract_findings_and_background(response_text)
       IN  /\ findings_part' = r.findings
           /\ background_part' = r.background
    /\ pc' = "extracted"
    /\ UNCHANGED <<inputs, parsed, prompt, loops, tempdirs, service, temp_dir, analysis, ctx, retry_count, response,
                   response_text, exc, reply, counters, query_log, predict,
                   socket>>

ParseBackgroundResponse ==
    /\ pc = "split"
    /\ LET r == parse_background_response(response_text)
       IN  /\ findings_part' = r.findings
           /\ background_part' = r.background
    /\ pc' = "parsed"
    /\ UNCHANGED <<inputs, parsed, prompt, loops, tempdirs, service, temp_dir, analysis, ctx, retry_count, response,
                   response_text, exc, reply, counters, query_log, predict,
                   socket>>

NextSplitter == ExtractFindingsAndBackground \/ ParseBackgroundResponse

SpecSplitter == InitSplitter /\ [][NextSplitter]_vars

(***************************************************************************)
(* A query that arrives over the socket: case_query_handler.query_case     *)
(* starts _query_case_task through socket_manager.start_background_task;   *)
(* the task awaits predictions.query_case.  All coroutines run on one      *)
(* event loop: another task or handler runs only while the running task  *)
(* is suspended at an await that yields.  predictions.query_case and what it  *)
(* awaits hold no such await (the model call and time.sleep are blocking), *)
(* so the task does not yield between its last progress update and the     *)
(* await of the heartbeat task in its finally clause.                      *)
(*   task_pc "created"          task made, at its first progress updates   *)
(*           "query"            inside await query_case(...)               *)
(*           "await_heartbeat"  finally clause, awaiting the heartbeat task*)
(*           "finalizing"       at the progress updates 90 and 100         *)
(*           "returned" "failed" "cancelled"  the task is done             *)
(*           "closed"           start_background_task and the handler ended*)
(***************************************************************************)
SuspensionPoints == {"created", "await_heartbeat", "finalizing"}
TaskDone == {"returned", "failed", "cancelled", "closed"}

\* the event loop can run another task or handler
LoopFree == task_pc \in SuspensionPoints \cup TaskDone

\* heartbeat_coro can run its next step and emit a heartbeat
HeartbeatCoroCanRun == heartbeat_task = "scheduled" /\ LoopFree

SocketDocuments == {MkFiles(<<"txt">>, <<TRUE>>)}

InitSocket ==
    /\ caller = "query_case"
    /\ section \in {SecFindings, SecBackground}
    /\ request_case_type = <<>>
    /\ prompt_store = StoreGeneric
    /\ files \in SocketDocuments
    /\ batch_size = RequestBatchSize
    /\ max_retries = RequestMaxRetries
    /\ case_exists = TRUE
    /\ mkdtemp_ok = TRUE
    /\ model_loads \in BOOLEAN
    /\ case_type = <<>> /\ system_prompts = <<>>
    /\ temp_dir = FALSE
    /\ batches = <<>> /\ bi = 0 /\ batch_results = <<>> /\ processing_failed = FALSE
    /\ synthesis_prompt = <<>>
    /\ ctx = "none" /\ retry_count = 0 /\ response = <<>>
    /\ response_text = <<>> /\ exc = NoException /\ reply = NoReply
    /\ calls = 0 /\ all_rate_limited = TRUE /\ synth_calls = 0
    /\ synth_result = "none" /\ model_called = FALSE
    /\ NoTempDirs /\ NoLoops /\ NoPrompt /\ NoResult /\ NoSplit /\ NoPredict /\ query_log = <<>>
    /\ task_pc = "none" /\ heartbeat_task = "none"
    /\ client_connected = TRUE /\ disconnect_event = FALSE
    /\ task_registered = FALSE /\ cancel_requested = FALSE
    /\ heartbeat_sent = FALSE /\ delivered = "none"
    /\ disconnected_in_backoff = FALSE
    /\ task_status = "none" /\ task_event = "none"
    /\ pc = "socket"

request_vars == <<inputs, prompt, parsed, service, temp_dir, analysis, ctx, retry_count, response,
                  response_text, exc, reply, counters, splitter, query_log, predict>>

\* the status start_background_task records and the event it emits when the
\* awaited task returned, raised or was cancelled
TerminalStatus(ended) ==
    CASE ended = "returned" -> "completed"
      [] ended = "cancelled" -> "cancelled"
      [] OTHER -> "failed"

TerminalEvent(ended) ==
    CASE ended = "returned" -> "task_completed"
      [] ended = "cancelled" -> "task_cancelled"
      [] OTHER -> "task_failed"

\* case_query_handler.query_case and start_background_task up to 'await task'
SocketQueryCase ==
    /\ pc = "socket" /\ task_pc = "none"
    /\ client_connected
    /\ task_pc' = "created"
    /\ task_registered' = TRUE
    /\ task_status' = "running"
    /\ task_event' = "task_started"
    /\ UNCHANGED <<request_vars, loops, tempdirs, pc, heartbeat_task, client_connected,
                   disconnect_event, cancel_requested, heartbeat_sent, delivered,
                   disconnected_in_backoff>>

\* _query_case_task from its progress updates to the call of query_case; a
\* cancellation requested meanwhile is raised at the awaited update
TaskStart ==
    /\ task_pc = "created"
    /\ IF cancel_requested
       THEN /\ task_pc' = "cancelled"
            /\ cancel_requested' = FALSE
            /\ UNCHANGED <<heartbeat_task, pc>>
       ELSE /\ task_pc' = "query"
            /\ heartbeat_task' = "scheduled"
            /\ pc' = "request"
            /\ UNCHANGED cancel_requested
    /\ UNCHANGED <<request_vars, loops, tempdirs, registry, client_connected, disconnect_event,
                   task_registered, heartbeat_sent, delivered,
                   disconnected_in_backoff>>

\* query_case returned or raised: the finally clause cancels the heartbeat
\* task, which has not run yet, and awaits it
TaskAfterQuery ==
    /\ task_pc = "query" /\ pc = "done"
    /\ heartbeat_task' = "cancelled"
    /\ task_pc' = "await_heartbeat"
    /\ UNCHANGED <<request_vars, loops, tempdirs, registry, pc, client_connected, disconnect_event,
                   task_registered, cancel_requested, heartbeat_sent, delivered,
                   disconnected_in_backoff>>

\* the task resumes from 'await heartbeat_task': a CancelledError raised
\* there, its own included, is caught and dropped; an HTTPException of
\* query_case is raised again after the finally clause
TaskResume ==
    /\ task_pc = "await_heartbeat"
    /\ cancel_requested' = FALSE
    /\ task_pc' = IF reply.status >= 400 THEN "failed" ELSE "finalizing"
    /\ UNCHANGED <<request_vars, loops, tempdirs, registry, pc, heartbeat_task, client_connected,
                   disconnect_event, task_registered, heartbeat_sent, delivered,
                   disconnected_in_backoff>>

\* the progress updates 90 and 100 and the return of the result
TaskReturn ==
    /\ task_pc = "finalizing"
    /\ IF cancel_requested
       THEN task_pc' = "cancelled" /\ cancel_requested' = FALSE
       ELSE task_pc' = "returned" /\ UNCHANGED cancel_requested
    /\ UNCHANGED <<request_vars, loops, tempdirs, registry, pc, heartbeat_task, client_connected,
                   disconnect_event, task_registered, heartbeat_sent, delivered,
                   disconnected_in_backoff>>

\* start_background_task after 'await task' and the end of the handler:
\* the status update fails with KeyError when disconnect deleted tasks[sid]
\* and the handler emits 'error'; otherwise 'case_query_completed' carries
\* the result to the client's room
TaskDeliver ==
    /\ task_pc \in {"returned", "failed", "cancelled"}
    /\ task_pc' = "closed"
    /\ delivered' = IF ~client_connected THEN "none"
                    ELSE IF task_pc = "returned" /\ task_registered THEN "result"
                    ELSE "error"
    /\ task_status' = IF task_registered THEN TerminalStatus(task_pc) ELSE task_status
    /\ task_event' = IF task_registered THEN TerminalEvent(task_pc) ELSE task_event
    /\ UNCHANGED <<request_vars, loops, tempdirs, pc, heartbeat_task, client_connected,
                   disconnect_event, task_registered, cancel_requested,
                   heartbeat_sent, disconnected_in_backoff>>

\* the client goes away; the server's disconnect handler has to wait for
\* the event loop
ClientDisconnect ==
    /\ client_connected /\ task_pc \notin {"none", "closed"}
    /\ client_connected' = FALSE
    /\ disconnect_event' = TRUE
    /\ disconnected_in_backoff' = (task_pc = "query" /\ pc = "predict" /\ retry_count > 0)
    /\ UNCHANGED <<request_vars, loops, tempdirs, registry, pc, task_pc, heartbeat_task, task_registered,
                   cancel_requested, heartbeat_sent, delivered>>

\* socket_manager.disconnect
Disconnect ==
    /\ disconnect_event /\ LoopFree
    /\ disconnect_event' = FALSE
    /\ cancel_requested' = (cancel_requested
                              \/ (task_registered /\ task_pc \notin TaskDone))
    /\ task_registered' = FALSE
    /\ UNCHANGED <<request_vars, loops, tempdirs, registry, pc, task_pc, heartbeat_task, client_connected,
                   heartbeat_sent, delivered, disconnected_in_backoff>>

\* socket_manager.task_heartbeat, the handler of the client's heartbeat
\* request: a task_progress heartbeat for a task registered as running
TaskHeartbeat ==
    /\ client_connected /\ LoopFree
    /\ task_registered /\ task_pc \notin {"none", "closed"}
    /\ ~heartbeat_sent
    /\ heartbeat_sent' = TRUE
    /\ UNCHANGED <<request_vars, loops, tempdirs, registry, pc, task_pc, heartbeat_task, client_connected,
                   disconnect_event, task_registered, cancel_requested, delivered,
                   disconnected_in_backoff>>

NextSocket ==
    \/ SocketQueryCase
    \/ TaskStart
    \/ Request
    \/ ProcessDocuments
    \/ AnalysisBegin
    \/ QueryWithBatch
    \/ GenerateContent
    \/ BatchLoopStep
    \/ Respond
    \/ RespondException
    \/ TaskAfterQuery
    \/ TaskResume
    \/ TaskReturn
    \/ TaskDeliver
    \/ ClientDisconnect
    \/ Disconnect
    \/ TaskHeartbeat

SpecSocket == InitSocket /\ [][NextSocket]_vars

(***************************************************************************)
(* The temporary directory of one InferenceService over several calls of   *)
(* create_unified_analysis (an InferencePipeline keeps one service for all *)
(* its calls).  A directory is named by the number of the call whose       *)
(* mkdtemp made it.                                                        *)
(***************************************************************************)
\* InferenceService.cleanup; rmtree_ok: shutil.rmtree succeeds
cleanup(path, on_disk, rmtree_ok) ==
    IF path # None /\ path \in on_disk
    THEN [temp_dir |-> None,
          disk |-> IF rmtree_ok THEN on_disk \ {path} ELSE on_disk]
    ELSE [temp_dir |-> path, disk |-> on_disk]

\* the ways create_unified_analysis leaves its try block once the
\* directory exists
ExitPaths ==
    {"no_documents", "extraction_raises", "query_raises", "single_batch",
     "get_model_raises", "narrative", "synthesis_error"}

InitTempDir ==
    /\ caller = "pipeline"
    /\ section = SecFindings
    /\ request_case_type = <<>>
    /\ prompt_store = StoreGeneric
    /\ files = <<>>
    /\ batch_size = RequestBatchSize
    /\ max_retries = RequestMaxRetries
    /\ case_exists = TRUE
    /\ mkdtemp_ok = TRUE
    /\ model_loads = TRUE
    /\ case_type = DefaultCaseType
    /\ system_prompts = load_system_prompts(prompt_store, case_type)
    /\ Idle
    /\ pc = "tempdir"

OtherThanTempDir == <<request_vars, pc, socket, loops>>

\* a call of create_unified_analysis begins
CreateUnifiedAnalysis ==
    /\ pc = "tempdir"
    /\ td_pc \in {"idle", "exited"}
    /\ invocation < MaxInvocations
    /\ invocation' = invocation + 1
    /\ created' = None
    /\ exit_path' = "none"
    /\ td_pc' = "download"
    /\ UNCHANGED <<temp_dir_path, disk, OtherThanTempDir>>

\* download_case_documents up to the end of its first try block
DownloadCaseDocuments ==
    /\ pc = "tempdir"
    /\ td_pc = "download"
    /\ \E rmtree_ok \in BOOLEAN, mkdtemp_succeeds \in BOOLEAN :
          LET c == cleanup(temp_dir_path, disk, rmtree_ok)
          IN  IF mkdtemp_succeeds
              THEN /\ temp_dir_path' = invocation
                   /\ disk' = c.disk \cup {invocation}
                   /\ created' = invocation
                   /\ td_pc' = "running"
                   /\ UNCHANGED exit_path
              ELSE /\ temp_dir_path' = c.temp_dir
                   /\ disk' = c.disk
                   /\ exit_path' = "mkdtemp_raises"
                   /\ td_pc' = "finally"
                   /\ UNCHANGED created
    /\ UNCHANGED <<invocation, OtherThanTempDir>>

\* the rest of the try block of create_unified_analysis: none of its
\* statements touches temp_dir or the directory
AnalysisExit ==
    /\ pc = "tempdir"
    /\ td_pc = "running"
    /\ \E p \in ExitPaths : exit_path' = p
    /\ td_pc' = "finally"
    /\ UNCHANGED <<temp_dir_path, disk, invocation, created, OtherThanTempDir>>

\* finally: self.cleanup()
Finally ==
    /\ pc = "tempdir"
    /\ td_pc = "finally"
    /\ \E rmtree_ok \in BOOLEAN :
          LET c == cleanup(temp_dir_path, disk, rmtree_ok)
          IN  /\ temp_dir_path' = c.temp_dir
              /\ disk' = c.disk
    /\ td_pc' = "exited"
    /\ UNCHANGED <<invocation, created, exit_path, OtherThanTempDir>>

NextTempDir ==
    \/ CreateUnifiedAnalysis
    \/ DownloadCaseDocuments
    \/ AnalysisExit
    \/ Finally

SpecTempDir == InitTempDir /\ [][NextTempDir]_vars

(***************************************************************************)
(* GeminiHandler (controller/gemini_case_handler.py): the retry loop of    *)
(* query_with_batch and the retry loop of the final synthesis in           *)
(* create_unified_analysis.  Both call model.generate_content themselves   *)
(* and use the module's own extract_retry_delay, which is the same text as *)
(* gemini_model.extract_retry_delay.                                       *)
(***************************************************************************)
HandlerBlockedMarker == <<"Error:", "Content generation blocked", "(SAFETY)">>
HandlerEmptyMarker == <<"Error:", "No text returned", "(Reason: STOP).">>
HandlerSynthesisEmptyMarker ==
    <<"Error:", "No text returned from final synthesis", "(Reason: STOP).">>
HandlerSynthesisExhausted ==
    <<"Error:", "Could not", "create",
      "unified analysis due to repeated rate limit or other errors", ".">>
HandlerQueryFailed(error_str_) == <<"Gemini query failed:">> \o error_str_

\* the condition of the except clause of the batch loop
HandlerBatchRateLimit(error_str_) ==
    \/ Contains(error_str_, <<"429">>)
    \/ Contains(Lower(error_str_), <<"rate limit">>)
    \/ Contains(Lower(error_str_), <<"quota">>)

\* the condition of the except clause of the synthesis loop
HandlerSynthesisRateLimit(error_str_) ==
    \/ Contains(error_str_, <<"429">>)
    \/ Contains(Lower(error_str_), <<"rate limit">>)

HandlerQueryStepAbsorbs(o, rc, maxr, base) ==
    CASE o.kind = "text" ->
            [res |-> "return", val |-> o.val, rc |-> rc, sleep |-> 0]
      [] o.kind = "blocked" ->
            [res |-> "blocked", val |-> HandlerBlockedMarker, rc |-> rc, sleep |-> 0]
      [] o.kind = "empty" ->
            [res |-> "empty", val |-> HandlerEmptyMarker, rc |-> rc, sleep |-> 0]
      [] OTHER ->
            IF HandlerBatchRateLimit(o.val)
            THEN [res |-> IF rc + 1 <= maxr THEN "retry" ELSE "exhausted",
                  val |-> IF rc + 1 <= maxr THEN <<>> ELSE BatchRateLimitMarker,
                  rc |-> rc + 1,
                  sleep |-> extract_retry_delay(o.val, Backoff(base, rc))]
            ELSE IF Contains(o.val, DictFormatNeedle)
            THEN [res |-> IF rc + 1 <= maxr THEN "retry" ELSE "exhausted",
                  val |-> IF rc + 1 <= maxr THEN <<>> ELSE BatchRateLimitMarker,
                  rc |-> rc + 1, sleep |-> 0]
            ELSE [res |-> "empty", val |-> ErrorPrefix \o HandlerQueryFailed(o.val),
                  rc |-> rc, sleep |-> 0]

\* one pass of the body of the batch loop for outcome o at retry counter rc
HandlerQueryStep(o, rc, maxr, base) ==
    CASE o.kind = "text" ->
            [res |-> "return", val |-> o.val, rc |-> rc, sleep |-> 0]
      [] o.kind = "blocked" ->
            [res |-> "blocked", val |-> HandlerBlockedMarker, rc |-> rc, sleep |-> 0]
      [] o.kind = "empty" ->
            [res |-> "empty", val |-> HandlerEmptyMarker, rc |-> rc, sleep |-> 0]
      [] OTHER ->
            IF HandlerBatchRateLimit(o.val)
            THEN [res |-> IF rc + 1 <= maxr THEN "retry" ELSE "exhausted",
                  val |-> IF rc + 1 <= maxr THEN <<>> ELSE BatchRateLimitMarker,
                  rc |-> rc + 1,
                  sleep |-> extract_retry_delay(o.val, Backoff(base, rc))]
            ELSE IF Contains(o.val, DictFormatNeedle)
            THEN [res |-> IF rc + 1 <= maxr THEN "retry" ELSE "exhausted",
                  val |-> IF rc + 1 <= maxr THEN <<>> ELSE BatchRateLimitMarker,
                  rc |-> rc + 1, sleep |-> 0]
            ELSE [res |-> "raise", val |-> HandlerQueryFailed(o.val), rc |-> rc,
                  sleep |-> 0]

\* one pass of the body of the synthesis loop
HandlerSynthesisStep(o, rc, maxr, base) ==
    CASE o.kind = "text" ->
            [res |-> "return", val |-> o.val, rc |-> rc, sleep |-> 0]
      [] o.kind = "blocked" ->
            [res |-> "blocked", val |-> HandlerBlockedMarker, rc |-> rc, sleep |-> 0]
      [] o.kind = "empty" ->
            [res |-> "empty", val |-> HandlerSynthesisEmptyMarker, rc |-> rc,
             sleep |-> 0]
      [] OTHER ->
            IF HandlerSynthesisRateLimit(o.val)
            THEN [res |-> IF rc + 1 <= maxr THEN "retry" ELSE "exhausted",
                  val |-> IF rc + 1 <= maxr THEN <<>> ELSE HandlerSynthesisExhausted,
                  rc |-> rc + 1,
                  sleep |-> extract_retry_delay(o.val, Backoff(base, rc))]
            ELSE [res |-> "raise", val |-> o.val, rc |-> rc, sleep |-> 0]

\* a loop after one more pass of its body
Advance(loop, step) ==
    [retry_count |-> step.rc,
     attempts |-> loop.attempts + 1,
     delays |-> IF step.sleep > 0 THEN Append(loop.delays, step.sleep)
                ELSE loop.delays,
     res |-> IF step.res = "retry" THEN "running" ELSE step.res,
     val |-> step.val]

\* how a loop ended: with the model's text, with an 'Error:' string that is
\* returned, or with an exception
OutcomeClass(loop) ==
    CASE loop.res = "return" -> "text"
      [] loop.res \in {"blocked", "empty", "exhausted"} -> "error_string"
      [] loop.res = "raise" -> "failure"
      [] OTHER -> loop.res

(***************************************************************************)
(* The two loops side by side: the model's k-th answer is given to the     *)
(* k-th generate_content call of each loop that is still running.          *)
(***************************************************************************)
InitLoops ==
    /\ caller = "query_case"
    /\ section = SecFindings
    /\ request_case_type = <<>>
    /\ prompt_store = StoreGeneric
    /\ files = <<>>
    /\ batch_size = RequestBatchSize
    /\ max_retries = RequestMaxRetries
    /\ case_exists = TRUE
    /\ mkdtemp_ok = TRUE
    /\ model_loads = TRUE
    /\ case_type = DefaultCaseType
    /\ system_prompts = load_system_prompts(prompt_store, case_type)
    /\ temp_dir = FALSE
    /\ batches = <<>> /\ bi = 0 /\ batch_results = <<>> /\ processing_failed = FALSE
    /\ synthesis_prompt = <<>>
    /\ ctx = "none" /\ retry_count = 0 /\ response = <<>>
    /\ response_text = <<>> /\ exc = NoException /\ reply = NoReply
    /\ calls = 0 /\ all_rate_limited = TRUE /\ synth_calls = 0
    /\ synth_result = "none" /\ model_called = FALSE
    /\ NoTempDirs /\ NoPrompt /\ NoResult /\ NoSplit /\ NoPredict /\ query_log = <<>> /\ NoSocket
    /\ batch_loop = LoopAt("running") /\ synthesis_loop = LoopAt("running")
    /\ pc = "loops"

GenerateContentBoth ==
    /\ pc = "loops"
    /\ batch_loop.res = "running" \/ synthesis_loop.res = "running"
    /\ \E o \in Outcomes :
          /\ batch_loop' =
                IF batch_loop.res = "running"
                THEN Advance(batch_loop,
                             HandlerQueryStep(o, batch_loop.retry_count, max_retries,
                                              RequestBaseRetryDelay))
                ELSE batch_loop
          /\ synthesis_loop' =
                IF synthesis_loop.res = "running"
                THEN Advance(synthesis_loop,
                             HandlerSynthesisStep(o, synthesis_loop.retry_count,
                                                  max_retries, RequestBaseRetryDelay))
                ELSE synthesis_loop
    /\ UNCHANGED <<request_vars, pc, socket, tempdirs>>

NextLoops == GenerateContentBoth

SpecLoops == InitLoops /\ [][NextLoops]_vars

(***************************************************************************)
(* utils/text_parser.parse_text_to_json.  Its two patterns are searched    *)
(* without regard to case, and the asterisks and the number of a header    *)
(* are optional in them: a pattern matches a header fragment as a whole,   *)
(* in any case, and the bare words as well.  ('**1.4. Findings**' is left  *)
(* out: the pattern matches it only from 'Findings' on.)                   *)
(***************************************************************************)
findings_pattern ==
    {"**1.4 Findings**", "**Findings**", "**1.4 FINDINGS**", "**FINDINGS**",
     "**findings**", "findings"}

background_pattern ==
    {"**2. Background Information**", "**2.0 Background Information**",
     "**Background Information**", "**BACKGROUND INFORMATION**",
     "**2. BACKGROUND INFORMATION**", "**2.0 BACKGROUND INFORMATION**",
     "**background information**"}

\* re.search(pattern, text).start(): index of the first match, 0 for None
re_search(pattern, text) ==
    IF \E i \in 1..Len(text) : text[i] \in pattern
    THEN CHOOSE i \in 1..Len(text) :
            text[i] \in pattern /\ \A j \in 1..(i - 1) : text[j] \notin pattern
    ELSE 0

\* re.sub(pattern, repl, text, count=1)
re_sub_first(pattern, repl, text) ==
    LET i == re_search(pattern, text)
    IN  IF i = 0 THEN text ELSE [j \in 1..Len(text) |-> IF j = i THEN repl ELSE text[j]]

\* the two sentences the function looks for
InitialContentSentence == "This is some initial content without a header"
FindingsSentence ==
    <<"The investigation found several", " ", "findings", " ",
      "related to the incident">>

\* text[:text.find(header)]: find gives -1 for a missing header, and
\* text[:-1] is the text without its last character
UpToHeader(text, header) ==
    LET i == Find(text, header)
        n == Len(text)
    IN  IF i # 0 THEN Slice(text, 1, i)
        ELSE IF n = 0 THEN <<>>
        ELSE IF Len(text[n]) = 1 THEN SubSeq(text, 1, n - 1)
        ELSE SubSeq(text, 1, n - 1) \o <<SubSeq(text[n], 1, Len(text[n]) - 1)>>

parse_text_to_json(text) ==
    IF text = <<>> \/ Strip(text) = <<>>
    THEN [response_of_findings |-> <<>>, response |-> <<>>]
    ELSE
    LET findings_start == re_search(findings_pattern, text)
        background_start == re_search(background_pattern, text)
        pre_content == Strip(Slice(text, 1, background_start))
        \* the if / elif on the two matches
        f1 == IF findings_start # 0 /\ background_start # 0
              THEN IF findings_start < background_start
                   THEN Strip(Slice(text, findings_start, background_start))
                   ELSE Strip(SliceFrom(text, findings_start))
              ELSE IF findings_start # 0
              THEN Strip(SliceFrom(text, findings_start))
              ELSE IF background_start # 0
              THEN IF background_start > 1 /\ pre_content # <<>>
                   THEN <<CanonicalFindingsHeader, "\n">> \o pre_content
                   ELSE <<>>
              ELSE IF HasFindingWord(text)
              THEN <<CanonicalFindingsHeader, "\n">> \o Strip(text)
              ELSE <<>>
        b1 == IF findings_start # 0 /\ background_start # 0
              THEN IF findings_start < background_start
                   THEN Strip(SliceFrom(text, background_start))
                   ELSE Strip(Slice(text, background_start, findings_start))
              ELSE IF findings_start # 0
              THEN <<>>
              ELSE IF background_start # 0
              THEN Strip(SliceFrom(text, background_start))
              ELSE IF HasFindingWord(text) THEN <<>> ELSE Strip(text)
        \* the two special cases
        f2 == IF Contains(text, <<InitialContentSentence>>)
              THEN <<CanonicalFindingsHeader, "\n">>
                       \o Strip(UpToHeader(text, "**2. Background Information**"))
              ELSE f1
        f3 == IF Contains(text, FindingsSentence)
              THEN <<CanonicalFindingsHeader, "\n">> \o Strip(text)
              ELSE f2
        \* the standard headers
        replaced == re_sub_first(findings_pattern, CanonicalFindingsHeader, f3)
        f4 == IF f3 # <<>> /\ f3[1] # CanonicalFindingsHeader
              THEN IF replaced[1] = CanonicalFindingsHeader
                   THEN replaced
                   ELSE <<CanonicalFindingsHeader, "\n">> \o replaced
              ELSE f3
        b2 == IF b1 # <<>> /\ b1[1] \notin background_pattern
              THEN <<"**Background Information**", "\n">> \o b1
              ELSE b1
    IN  [response_of_findings |-> f4, response |-> b2]

(***************************************************************************)
(* The two splitters of a model response on the same texts: every text of  *)
(* up to MaxPieces pieces, a piece being a header in a listed form or in   *)
(* another case, a word, white space, or one of the two sentences.         *)
(***************************************************************************)
ParserPieces ==
    {<<"**1.4 Findings**">>, <<"**FINDINGS**">>, <<"**findings**">>,
     <<"findings">>, <<"finding">>,
     <<"**Background Information**">>, <<"**2. Background Information**">>,
     <<"**background information**">>,
     <<" ">>, <<"x">>, <<InitialContentSentence>>, FindingsSentence}

ParserTexts == UNION {{Flatten(ps) : ps \in [1..n -> ParserPieces]} : n \in 0..MaxPieces}

InitParser ==
    /\ caller = "query_case"
    /\ section = SecFindings
    /\ request_case_type = <<>>
    /\ prompt_store = StoreGeneric
    /\ files = <<>>
    /\ batch_size = RequestBatchSize
    /\ max_retries = RequestMaxRetries
    /\ case_exists = TRUE
    /\ mkdtemp_ok = TRUE
    /\ model_loads = TRUE
    /\ case_type = DefaultCaseType
    /\ system_prompts = load_system_prompts(prompt_store, case_type)
    /\ temp_dir = FALSE
    /\ batches = <<>> /\ bi = 0 /\ batch_results = <<>> /\ processing_failed = FALSE
    /\ synthesis_prompt = <<>>
    /\ ctx = "none" /\ retry_count = 0 /\ response = <<>>
    /\ response_text \in ParserTexts
    /\ exc = NoException /\ reply = NoReply
    /\ calls = 0 /\ all_rate_limited = TRUE /\ synth_calls = 0
    /\ synth_result = "none" /\ model_called = FALSE
    /\ NoTempDirs /\ NoLoops /\ NoPrompt /\ NoResult /\ NoSplit /\ NoPredict
    /\ query_log = <<>> /\ NoSocket
    /\ pc = "split"

ParseTextToJson ==
    /\ pc = "split"
    /\ result' = parse_text_to_json(response_text)
    /\ pc' = "json"
    /\ UNCHANGED <<inputs, service, temp_dir, analysis, ctx, retry_count, response,
                   response_text, exc, reply, counters, splitter, query_log,
                   predict, socket, tempdirs, loops, prompt>>

NextParser == ExtractFindingsAndBackground \/ ParseTextToJson

SpecParser == InitParser /\ [][NextParser]_vars

(***************************************************************************)
(* GeminiHandler.create_unified_analysis as a whole: the documents, the    *)
(* batch loop with query_with_batch, the synthesis loop, and the finally   *)
(* clause.  query_with_batch always has a prompt (it makes a default one   *)
(* when the table has none), so the prompt does not decide the control     *)
(* flow.                                                                   *)
(***************************************************************************)
HandlerSynthesisPrompt(sec, results) ==
    <<"Collected Batches:">> \o CombinedText(results, 1)
        \o <<"Now provide the final consolidated analysis for">> \o sec

HandlerQueryError(error_str_) ==
    [type |-> "RuntimeError", msg |-> HandlerQueryFailed(error_str_)]

HandlerSynthesisError(error_str_) == [type |-> "Exception", msg |-> error_str_]

InitHandler ==
    /\ caller = "case_router"
    /\ section \in {SecFindings, SecBackground}
    /\ request_case_type = <<>>
    /\ prompt_store = StoreGeneric
    /\ files \in RequestFiles
    /\ batch_size = RequestBatchSize
    /\ max_retries = RequestMaxRetries
    /\ case_exists = TRUE
    /\ mkdtemp_ok \in BOOLEAN
    /\ model_loads = TRUE
    /\ case_type = DefaultCaseType
    /\ system_prompts = load_system_prompts(prompt_store, case_type)
    /\ Idle
    /\ pc = "handler"

\* process_documents_in_batches and the check for an empty batch list
HandlerProcessDocuments ==
    /\ pc = "handler"
    /\ IF ~mkdtemp_ok
       THEN /\ exc' = MkdtempError
            /\ temp_dir' = FALSE
            /\ pc' = "handler_raised"
            /\ UNCHANGED <<batches, bi, response_text>>
       ELSE LET made == process_documents(files, batch_size)
            IN  /\ batches' = made
                /\ IF made = <<>>
                   THEN /\ response_text' = NoDocumentsMarker
                        /\ temp_dir' = FALSE
                        /\ pc' = "handler_returned"
                        /\ UNCHANGED bi
                   ELSE /\ bi' = 1
                        /\ temp_dir' = TRUE
                        /\ pc' = "handler_query"
                        /\ UNCHANGED response_text
                /\ UNCHANGED exc
    /\ UNCHANGED <<inputs, service, batch_results, processing_failed, synthesis_prompt,
                   ctx, retry_count, response, reply, counters, splitter, query_log,
                   predict, socket, tempdirs, loops, prompt, parsed>>

\* one pass of the retry loop of query_with_batch, and when the call
\* returns, the rest of the body of the batch loop
HandlerGenerateContent ==
    /\ pc = "handler_query"
    /\ retry_count <= max_retries
    /\ \E o \in Outcomes :
        LET st == HandlerQueryStep(o, retry_count, max_retries, RequestBaseRetryDelay)
            results == Append(batch_results, BatchEntry(bi, st.val))
            failed == processing_failed \/ BatchFailed(st.val)
        IN  /\ calls' = IF st.res \in {"retry", "raise"} THEN calls + 1 ELSE 0
            /\ model_called' = TRUE
            /\ error_str' = IF o.kind = "raise" THEN o.val ELSE <<>>
            /\ retry_delay' = st.sleep
            /\ IF st.res = "retry"
               THEN /\ retry_count' = st.rc
                    /\ UNCHANGED <<batch_results, processing_failed, bi, query_log,
                                   synthesis_prompt, response, response_text, exc,
                                   temp_dir, pc>>
               ELSE IF st.res = "raise"
               THEN /\ exc' = HandlerQueryError(o.val)
                    /\ temp_dir' = FALSE
                    /\ pc' = "handler_raised"
                    /\ UNCHANGED <<batch_results, processing_failed, bi, query_log,
                                   synthesis_prompt, response, response_text,
                                   retry_count>>
               ELSE /\ response' = st.val
                    /\ query_log' = Append(query_log, [batch |-> bi, result |-> st.val])
                    /\ batch_results' = results
                    /\ processing_failed' = failed
                    /\ retry_count' = 0
                    /\ IF bi < Len(batches)
                       THEN /\ bi' = bi + 1
                            /\ UNCHANGED <<synthesis_prompt, response_text, exc,
                                           temp_dir, pc>>
                       ELSE IF Shortcut(results, failed)
                       THEN /\ response_text' = results[1]
                            /\ temp_dir' = FALSE
                            /\ pc' = "handler_returned"
                            /\ UNCHANGED <<bi, synthesis_prompt, exc>>
                       ELSE /\ synthesis_prompt' = HandlerSynthesisPrompt(section, results)
                            /\ pc' = "handler_synthesis"
                            /\ UNCHANGED <<bi, response_text, exc, temp_dir>>
    /\ UNCHANGED <<inputs, service, batches, ctx, reply, all_rate_limited, synth_calls,
                   synth_result, splitter, predict_result, sleeps, socket, tempdirs,
                   loops, prompt, parsed>>

\* one pass of the retry loop of the final synthesis
HandlerSynthesis ==
    /\ pc = "handler_synthesis"
    /\ retry_count <= max_retries
    /\ \E o \in Outcomes :
        LET st == HandlerSynthesisStep(o, retry_count, max_retries,
                                       RequestBaseRetryDelay)
        IN  /\ synth_calls' = synth_calls + 1
            /\ error_str' = IF o.kind = "raise" THEN o.val ELSE <<>>
            /\ retry_delay' = st.sleep
            /\ synth_result' = IF st.res = "retry" THEN synth_result ELSE st.res
            /\ IF st.res = "retry"
               THEN /\ retry_count' = st.rc
                    /\ UNCHANGED <<response_text, exc, temp_dir, pc>>
               ELSE IF st.res = "raise"
               THEN /\ exc' = HandlerSynthesisError(o.val)
                    /\ temp_dir' = FALSE
                    /\ pc' = "handler_raised"
                    /\ UNCHANGED <<response_text, retry_count>>
               ELSE /\ response_text' = st.val
                    /\ temp_dir' = FALSE
                    /\ pc' = "handler_returned"
                    /\ UNCHANGED <<exc, retry_count>>
    /\ UNCHANGED <<inputs, service, analysis, ctx, response, reply, calls,
                   all_rate_limited, model_called, splitter, query_log,
                   predict_result, sleeps, socket, tempdirs, loops, prompt, parsed>>

NextHandler ==
    \/ HandlerProcessDocuments
    \/ HandlerGenerateContent
    \/ HandlerSynthesis

SpecHandler == InitHandler /\ [][NextHandler]_vars

(***************************************************************************)
(* Properties.                                                             *)
(***************************************************************************)
QueryReachedModel == PromptFound(ResolvePrompt(section, case_type, system_prompts))

\* C1: retry bound -- one invocation of query_with_batch causes at most
\* max_retries + 1 generate_content calls, the calls of the format-fix
\* retry path included.
C1_RetryBound ==
    calls <= max_retries + 1

\* C2: retry exhaustion -- when query_with_batch reaches the model and every
\* generate_content call ends in a rate-limit-class error, it makes exactly
\* max_retries + 1 calls and returns exactly
\* 'Error: Rate limit exceeded after maximum retries.'.
C2_RetryExhaustion ==
    (pc = "query_returned" /\ QueryReachedModel /\ all_rate_limited)
        => (calls = max_retries + 1 /\ response = BatchRateLimitMarker)

C2_Witness ==
    /\ pc = "query_returned"
    /\ all_rate_limited
    /\ max_retries >= 1
    /\ calls = max_retries + 1
    /\ response = BatchRateLimitMarker

FailedEntry(e) == StartsWith(e, <<"[[ERROR PROCESSING BATCH">>)

PartialFailure ==
    /\ Len(batches) > 1
    /\ \E i \in 1..Len(batch_results) : FailedEntry(batch_results[i])
    /\ \E i \in 1..Len(batch_results) : ~FailedEntry(batch_results[i])

SynthesisIssued == pc = "predict" /\ ctx = "synth"

\* C3: partial batch failure is absorbed -- with more than one batch, when
\* some but not all batch queries failed, the operation does not end before
\* every batch was queried and the synthesis call was made; the synthesis
\* call is issued with the failure warning first and the N results in N
\* delimited blocks; and when the synthesis call succeeds, the text returned
\* is the generated text.
C3_PartialFailureAbsorbed ==
    /\ (PartialFailure /\ pc \in {"analysis_returned", "raised", "done"})
          => (Len(batch_results) = Len(batches) /\ synth_calls > 0)
    /\ (PartialFailure /\ SynthesisIssued)
          => /\ Len(batch_results) = Len(batches)
             /\ StartsWith(synthesis_prompt, FailureWarning)
             /\ \A i \in 1..Len(batches) :
                   Contains(synthesis_prompt,
                            <<"--- ANALYSIS FROM BATCH", ToString(i), "---">>
                                \o batch_results[i]
                                \o <<"--- END OF BATCH", ToString(i), "---">>)
    /\ (PartialFailure /\ pc = "analysis_returned" /\ synth_result = "return")
          => response_text \in ModelTexts

C3_Witness ==
    /\ PartialFailure
    /\ pc = "analysis_returned"
    /\ synth_result = "return"
    /\ FailedEntry(batch_results[1])
    /\ Contains(batch_results[1], ErrOther)
    /\ response_text = TextReport

\* C4: rate limiting is caller-visible -- when the synthesis call exhausted
\* its retries on rate-limit errors, the caller reports a rate-limited
\* outcome (error 'Rate limit exceeded', HTTP 429 from query_case).
C4_RateLimitVisible ==
    (pc = "done" /\ synth_result = "rate")
        => /\ reply.error = "Rate limit exceeded"
           /\ (caller = "query_case" => reply.status = 429)

ExtractedDocuments ==
    LET pick(kind) == SelectSeq(files, LAMBDA f : f.kind = kind /\ f.content # <<>>)
        all == pick("pdf") \o pick("docx") \o pick("txt")
    IN  [i \in 1..Len(all) |-> all[i].content]

C6_BatchingPartition ==
    pc = "batches_ready"
        => /\ Flatten(batches) = ExtractedDocuments
           /\ \A b \in 1..Len(batches) :
                 /\ Len(batches[b]) >= 1
                 /\ Len(batches[b]) <= batch_size
                 /\ (b < Len(batches) => Len(batches[b]) = batch_size)
           /\ (ExtractedDocuments = <<>> => batches = <<>>)

C6_Witness ==
    /\ pc = "batches_ready"
    /\ Len(batches) = 2
    /\ Len(batches[1]) = 2
    /\ Len(batches[2]) = 1
    /\ \E i \in 1..Len(files) : files[i].content = <<>>

\* C7: prompt resolution never fails on a populated table -- with a
\* non-empty prompt table, query_with_batch never returns a missing-prompt
\* error.
C7_PromptAlwaysResolves ==
    (pc = "query_returned" /\ system_prompts # <<>>)
        => ~Contains(response, <<"Not enough information is provided.">>)

\* C8: empty prompt table is a terminal error -- with an empty prompt table
\* and at least one batch, create_unified_analysis returns the no-prompts
\* error without any text-generation call.
C8_EmptyTableTerminal ==
    (pc = "analysis_returned" /\ system_prompts = <<>> /\ batches # <<>>)
        => (~model_called /\ response_text = NoPromptsMarker)

NoFileContent == \A i \in 1..Len(files) : files[i].content = <<>>

\* C9: empty input fails fast -- with no files, or no file with extractable
\* content, the batch list is empty and create_unified_analysis returns
\* exactly 'Error: No documents found or processed successfully for this
\* case.' without any text-generation call.
C9_EmptyInputFailsFast ==
    NoFileContent
        => /\ ~model_called
           /\ pc \notin {"query", "predict", "query_returned"}
           /\ (pc = "batches_ready" => batches = <<>>)
           /\ (pc = "analysis_returned"
                  => (batches = <<>> /\ response_text = NoDocumentsMarker))

C9_Witness ==
    /\ pc = "analysis_returned"
    /\ files # <<>>
    /\ NoFileContent
    /\ response_text = NoDocumentsMarker
    /\ ~model_called

AnalysisFailed ==
    \/ exc # NoException
    \/ StartsWith(response_text, ErrorPrefix)

\* C10: Background Information error policy -- for section 'Background
\* Information', query_case answers every failure of the analysis (an error
\* marker returned, or an exception raised) with the benign default payload
\* and never with an HTTP error.
C10_BackgroundPolicy ==
    (pc = "done" /\ caller = "query_case" /\ section = SecBackground /\ AnalysisFailed)
        => (reply.status = 200 /\ reply.kind = "default")

\* position of the first fragment of s that is one of the headers, 0 if none
FirstHeader(s, headers) ==
    LET hs == {headers[i] : i \in DOMAIN headers}
        at == {i \in 1..Len(s) : s[i] \in hs}
    IN  IF at = {} THEN 0 ELSE CHOOSE i \in at : \A j \in at : i <= j

FindingsAt == FirstHeader(response_text, findings_headers)
BackgroundAt == FirstHeader(response_text, background_headers)
FindingsBeforeBackground ==
    pc = "extracted" /\ FindingsAt # 0 /\ BackgroundAt # 0 /\ FindingsAt < BackgroundAt

\* C11 as stated: with a findings header followed by a background header,
\* findings is the stripped text from the findings header up to the
\* background header, and background the stripped text from the background
\* header to the end.
C11_FindingsIsSlice ==
    FindingsBeforeBackground
        => /\ findings_part = Strip(SubSeq(response_text, FindingsAt, BackgroundAt - 1))
           /\ background_part = Strip(SubSeq(response_text, BackgroundAt, Len(response_text)))

\* C11: splitter, findings before background -- findings is the stripped
\* text from the findings header up to the background header with that
\* header in its canonical form, background is the stripped text from the
\* background header to the end, and the text before the findings header
\* is in neither part.
C11_FindingsBeforeBackground ==
    FindingsBeforeBackground
        => LET slice == Strip(SubSeq(response_text, FindingsAt, BackgroundAt - 1))
           IN  /\ findings_part = <<CanonicalFindingsHeader>> \o Tail(slice)
               /\ background_part =
                      Strip(SubSeq(response_text, BackgroundAt, Len(response_text)))
               /\ Len(findings_part) + Len(background_part)
                      <= Len(response_text) - (FindingsAt - 1)

C11_Witness ==
    /\ pc = "extracted"
    /\ response_text = <<"x", "**FINDINGS**", " ", "**Background Information**">>
    /\ findings_part = <<CanonicalFindingsHeader>>
    /\ background_part = <<"**Background Information**">>

\* C12: findings header normalization -- when the earliest findings header
\* is not the canonical one and no background header precedes it, the
\* returned findings begins with the canonical header in its place, and the
\* rest of the findings text, later occurrences of the found header
\* included, is unchanged.
C12_HeaderNormalized ==
    (/\ pc = "extracted"
     /\ FindingsAt # 0
     /\ response_text[FindingsAt] # CanonicalFindingsHeader
     /\ (BackgroundAt = 0 \/ FindingsAt < BackgroundAt))
        => LET last == IF BackgroundAt = 0 THEN Len(response_text) ELSE BackgroundAt - 1
               slice == Strip(SubSeq(response_text, FindingsAt, last))
           IN  /\ findings_part # <<>>
               /\ findings_part[1] = CanonicalFindingsHeader
               /\ Tail(findings_part) = Tail(slice)

C12_Witness ==
    /\ pc = "extracted"
    /\ response_text = <<"**FINDINGS**", "x", "**FINDINGS**">>
    /\ findings_part = <<CanonicalFindingsHeader, "x", "**FINDINGS**">>

\* C13: no-header fallback -- for a text with no findings header and no
\* background header, both functions return empty findings and the input
\* text unchanged as background.
C13_NoHeaderFallback ==
    (pc \in {"extracted", "parsed"} /\ FindingsAt = 0 /\ BackgroundAt = 0)
        => (findings_part = <<>> /\ background_part = response_text)

C13_Witness ==
    /\ pc = "parsed"
    /\ response_text = <<" ", "finding", " ">>
    /\ findings_part = <<>>
    /\ background_part = response_text

\* C14: background-marker-first parser -- for a text holding the marker
\* '**Background Information**' with i its first index,
\* parse_background_response returns findings = strip(text[:i]) and
\* background = strip(text[i:]); background begins with the marker and no
\* findings header is synthesized or normalized.
MarkerAt == FirstHeader(response_text, <<background_marker>>)

C14_MarkerFirstParser ==
    (pc = "parsed" /\ MarkerAt # 0)
        => /\ findings_part = Strip(SubSeq(response_text, 1, MarkerAt - 1))
           /\ background_part = Strip(SubSeq(response_text, MarkerAt, Len(response_text)))
           /\ background_part[1] = background_marker

C14_Witness ==
    /\ pc = "parsed"
    /\ response_text = <<"**FINDINGS**", " ", "**Background Information**", "x">>
    /\ findings_part = <<"**FINDINGS**">>
    /\ background_part = <<"**Background Information**", "x">>

\* C15: synthesis runs on all results in order -- when the synthesis call
\* is issued for N batches, the N batch queries have all returned, one after
\* the other in batch order, no batch is queried afterwards, and the
\* synthesis prompt holds exactly N delimited blocks, block i holding what
\* the query of batch i returned (wrapped as an error entry when it is an
\* error marker), in batch order.
ExpectedBlock(i, returned) ==
    <<"--- ANALYSIS FROM BATCH", ToString(i), "---">>
        \o (IF StartsWith(returned, <<"Error:">>)
            THEN <<"[[ERROR PROCESSING BATCH", ToString(i), ":">> \o returned \o <<"]]">>
            ELSE returned)
        \o <<"--- END OF BATCH", ToString(i), "---">>

BlockOpenings(s) == Cardinality({i \in 1..Len(s) : s[i] = "--- ANALYSIS FROM BATCH"})

C15_SynthesisAfterAllBatches ==
    /\ SynthesisIssued
          => LET N == Len(batches)
             IN  /\ Len(query_log) = N
                 /\ \A i \in 1..N : query_log[i].batch = i
                 /\ Contains(synthesis_prompt,
                             Flatten([i \in 1..N |-> ExpectedBlock(i, query_log[i].result)]))
                 /\ BlockOpenings(synthesis_prompt) = N
    /\ synth_calls > 0
          => (Len(query_log) = Len(batches) /\ pc \notin {"query", "query_returned"})

C15_Witness ==
    /\ SynthesisIssued
    /\ Len(batches) = 2
    /\ query_log[1].result = ErrorPrefix \o <<"Gemini API error:">> \o ErrOther
    /\ query_log[2].result = TextReport

\* C16: only rate-limit-class errors are retried -- after an attempt that
\* ended with a non-rate-limit error, a content block or an empty response,
\* the predict call has ended with APIError: no sleep, no further attempt of
\* that call, and query_with_batch returns the API error text, not the
\* rate-limit marker.
NonRateLimitErrors ==
    {ErrorStr([kind |-> "blocked", val |-> <<>>]),
     ErrorStr([kind |-> "empty", val |-> <<>>]),
     ErrDict, ErrOther}

C16_OnlyRateLimitRetried ==
    error_str \in NonRateLimitErrors
        => /\ predict_result = "api"
           /\ retry_delay = 0
           /\ retry_count = 0
           /\ pc = "predict" => (ctx = "fix" /\ error_str = ErrDict)
           /\ pc = "query_returned"
                 => /\ response # BatchRateLimitMarker
                    /\ Contains(response, <<"Gemini API error:">> \o error_str)

C16_Witness ==
    /\ error_str = ErrorStr([kind |-> "blocked", val |-> <<>>])
    /\ pc = "query_returned"
    /\ max_retries >= 1
    /\ calls = 1
    /\ predict_result = "api"

\* C17: server-suggested delay -- after a rate-limit-class error whose text
\* carries 'retry_delay { seconds: N }', the delay slept is N + 2.
RECURSIVE LeadingNumber(_, _)
LeadingNumber(s, acc) ==
    IF s # <<>> /\ IsDigit(Head(s))
    THEN LeadingNumber(Tail(s), 10 * acc + DigitValue(Head(s)))
    ELSE acc

\* the N of 'seconds: N' in an error text
SuggestedSeconds(e) ==
    LET i == FindSeq(e, <<"seconds:">>)
    IN  LeadingNumber(LStrip(SubSeq(e, i + 1, Len(e))), 0)

CarriesSuggestion(e) ==
    FindSeq(e, <<"retry_delay", " {">>) # 0 /\ FindSeq(e, <<"seconds:">>) # 0

C17_ServerSuggestedDelay ==
    (predict_result \in {"running", "rate"} /\ CarriesSuggestion(error_str))
        => retry_delay = SuggestedSeconds(error_str) + 2

\* C18: exponential backoff -- the delay slept after a rate-limited attempt
\* without a server suggestion is base_retry_delay * 2^n, n the attempt
\* counter before the attempt, and every predict call (each batch query, the
\* synthesis call) starts with the counter at 0.
C18_ExponentialBackoff ==
    /\ [][(pc = "predict" /\ IsRateLimitClass(error_str')
             /\ ~Contains(error_str', <<"retry_delay">>))
            => retry_delay' = RequestBaseRetryDelay * (2 ^ retry_count)]_vars
    /\ []((pc = "predict" /\ predict_result # "running") => retry_count = 0)

C18_Witness ==
    /\ pc = "analysis_returned"
    /\ predict_result = "rate"
    /\ error_str = ErrQuota
    /\ retry_delay = 40
    /\ synth_calls = 4

\* between two rate-limited attempts of a query that came over the socket
InBackoff == task_pc = "query" /\ pc = "predict" /\ retry_count > 0 /\ retry_delay > 0

\* C19: backoff is a cooperative suspension point -- while a socket query
\* waits out a retry backoff delay, the event loop is free and the heartbeat
\* task can run and emit its heartbeat.
C19_BackoffYields == InBackoff => HeartbeatCoroCanRun

\* C20: cancellation stops retries -- when the client disconnects while its
\* query is between rate-limited attempts, no generate_content attempt is
\* made for that query afterwards, and the client's query delivers no
\* narrative.
C20_CancellationStopsRetries ==
    /\ [][(disconnected_in_backoff /\ pc = "predict")
            => (calls' = calls /\ synth_calls' = synth_calls)]_vars
    /\ [](disconnected_in_backoff => delivered # "result")

\* C21: the temporary directory is always released -- when a call of
\* create_unified_analysis has ended, on whatever path, temp_dir is None and
\* the directory the call made no longer exists; a call never works in a
\* directory made by an earlier call.
C21_TempDirReleased ==
    /\ td_pc = "exited" =>
          /\ temp_dir_path = None
          /\ created # None => created \notin disk
    /\ td_pc = "running" => (temp_dir_path = invocation /\ created = invocation)

\* C22: same retry machine for synthesis -- fed the same sequence of model
\* outcomes, the synthesis loop and the batch-query loop of GeminiHandler make
\* the same number of attempts with the same delays and end in the same class
\* of outcome.
C22_SameRetryMachine ==
    (batch_loop.res \notin {"none", "running"}
        /\ synthesis_loop.res \notin {"none", "running"})
        => /\ batch_loop.attempts = synthesis_loop.attempts
           /\ batch_loop.delays = synthesis_loop.delays
           /\ OutcomeClass(batch_loop) = OutcomeClass(synthesis_loop)

\* the non-empty prompt stored under the section's case-specific key, in
\* underscore form or else in space form (<<>>: none)
CaseSpecificPrompt ==
    LET under == Replace(section, " ", "_")
        spaced == Replace(under, "_", " ")
        a == Get(system_prompts, under \o <<"_">> \o case_type)
    IN  IF ~Truthy(case_type) THEN <<>>
        ELSE IF Truthy(a) THEN a
        ELSE Get(system_prompts, spaced \o <<"_">> \o case_type)

\* the non-empty prompt stored under the section's generic key
GenericPrompt ==
    LET under == Replace(section, " ", "_")
        spaced == Replace(under, "_", " ")
    IN  IF Truthy(Get(system_prompts, under)) THEN Get(system_prompts, under)
        ELSE Get(system_prompts, spaced)

\* key i of the table contains the section name or is contained in it
LooseKey(i) ==
    LET key == Lower(system_prompts[i].k)
        names == {Lower(section), Lower(Replace(section, " ", "_"))}
    IN  \E n \in names : Contains(key, n) \/ Contains(n, key)

LookupDone == pc \in {"predict", "query_returned", "raised"}

\* C23: prompt tier priority -- a non-empty prompt under the case-specific
\* key is used even when a generic key exists; otherwise a non-empty prompt
\* under the generic key is used in preference to any loose match; a loose
\* match is used only when both exact tiers miss, and then it is the first
\* key in table order that contains or is contained in the section name.
C23_PromptTierPriority ==
    LookupDone =>
        /\ Truthy(CaseSpecificPrompt) => system_prompt_text = CaseSpecificPrompt
        /\ (~Truthy(CaseSpecificPrompt) /\ Truthy(GenericPrompt))
              => system_prompt_text = GenericPrompt
        /\ (~Truthy(CaseSpecificPrompt) /\ ~Truthy(GenericPrompt)
              /\ Truthy(system_prompt_text))
              => \E i \in 1..Len(system_prompts) :
                    /\ LooseKey(i)
                    /\ system_prompt_text = system_prompts[i].v
                    /\ \A j \in 1..(i - 1) : ~LooseKey(j)

C23_Witness ==
    /\ pc = "predict"
    /\ Truthy(CaseSpecificPrompt)
    /\ Truthy(GenericPrompt)
    /\ GenericPrompt # CaseSpecificPrompt
    /\ \E i \in 1..Len(system_prompts) :
          LooseKey(i) /\ system_prompts[i].v \notin {GenericPrompt, CaseSpecificPrompt}
    /\ system_prompt_text = CaseSpecificPrompt

BackgroundBeforeFindings ==
    pc = "extracted" /\ FindingsAt # 0 /\ BackgroundAt # 0 /\ BackgroundAt < FindingsAt

\* C24: splitter, background before findings -- with a background header
\* followed by a findings header, background is the (stripped) text from the
\* background header up to the findings header, and findings is the
\* (stripped) text from the findings header to the end with that header in
\* its canonical form.
C24_BackgroundBeforeFindings ==
    BackgroundBeforeFindings
        => /\ background_part =
                  Strip(SubSeq(response_text, BackgroundAt, FindingsAt - 1))
           /\ findings_part =
                  <<CanonicalFindingsHeader>>
                      \o Tail(Strip(SubSeq(response_text, FindingsAt, Len(response_text))))

\* a header of either family with its asterisks, in any case
StarredHeaders ==
    {findings_headers[i] : i \in DOMAIN findings_headers}
        \cup {"**findings**"} \cup background_pattern

\* C25: keyword fallback -- for a text with no header but with the word
\* 'finding', parse_text_to_json returns as response_of_findings the
\* canonical header, a newline and the whole stripped text, and '' as
\* response.
C25_KeywordFallback ==
    (/\ pc = "json"
     /\ \A i \in 1..Len(response_text) : response_text[i] \notin StarredHeaders
     /\ HasFindingWord(response_text))
        => /\ result.response_of_findings =
                  <<CanonicalFindingsHeader, "\n">> \o Strip(response_text)
           /\ result.response = <<>>

\* a text with its lower-case headers written in the listed form
ListedForm(text) ==
    [i \in 1..Len(text) |->
        CASE text[i] = "**findings**" -> "**Findings**"
          [] text[i] = "**background information**" -> "**Background Information**"
          [] text[i] = "**findings*" -> "**Findings*"
          [] text[i] = "**background information*" -> "**Background Information*"
          [] OTHER -> text[i]]

\* parse_text_to_json splits at a header in another case as at the listed form
ParserIgnoresCase ==
    pc = "json" =>
        LET listed == parse_text_to_json(ListedForm(response_text))
        IN  /\ ListedForm(result.response_of_findings)
                  = ListedForm(listed.response_of_findings)
            /\ ListedForm(result.response) = ListedForm(listed.response)

\* C26: case-insensitive headers -- both splitters treat a header that
\* differs from a listed form only in letter case as that header: each
\* returns for the text what it returns for the text with the header in its
\* listed form (the header's own spelling apart).
C26_CaseInsensitiveHeaders ==
    /\ ParserIgnoresCase
    /\ pc = "extracted" =>
          LET listed == extract_findings_and_background(ListedForm(response_text))
          IN  /\ ListedForm(findings_part) = ListedForm(listed.findings)
              /\ ListedForm(background_part) = ListedForm(listed.background)

\* C27: backoff after the final attempt -- in predict every rate-limited
\* attempt is followed by a sleep, the last permitted attempt included: while
\* the loop runs the sleeps made equal the retry counter, and when predict
\* raises APIRateLimitError it has slept max_retries + 1 times, the last time
\* for base_retry_delay * 2^max_retries when the error carries no server
\* delay.
C27_BackoffAfterFinalAttempt ==
    /\ predict_result = "running" => sleeps = retry_count
    /\ predict_result = "rate"
          => /\ sleeps = max_retries + 1
             /\ error_str \in {Err429, ErrQuota}
                   => retry_delay = RequestBaseRetryDelay * (2 ^ max_retries)

C27_Witness ==
    /\ pc = "query_returned"
    /\ predict_result = "rate"
    /\ max_retries = 1
    /\ calls = 2
    /\ sleeps = 2
    /\ error_str = Err429
    /\ retry_delay = 2 * RequestBaseRetryDelay

\* every batch was queried and every query failed
TotalFailure ==
    /\ batches # <<>>
    /\ Len(batch_results) = Len(batches)
    /\ \A i \in 1..Len(batch_results) : FailedEntry(batch_results[i])

OperationEnded == pc \in {"analysis_returned", "raised", "done"}

HandlerNonRateLimitError ==
    /\ pc \in {"handler_query", "handler_raised"}
    /\ synth_calls = 0
    /\ error_str # <<>>
    /\ ~HandlerBatchRateLimit(error_str)

HandlerAborted ==
    /\ pc = "handler_raised"
    /\ exc = HandlerQueryError(error_str)
    /\ Len(query_log) = bi - 1
    /\ Len(batch_results) = bi - 1
    /\ synth_calls = 0
    /\ synthesis_prompt = <<>>
    /\ response_text = <<>>
    /\ temp_dir = FALSE

C30_RegistryConsistent ==
    task_pc = "closed" =>
        /\ task_status \in {"completed", "cancelled", "failed"}
        /\ task_event = CASE task_status = "completed" -> "task_completed"
                          [] task_status = "cancelled" -> "task_cancelled"
                          [] OTHER -> "task_failed"

====
